---- MODULE Spec2Model ----
(***************************************************************************)
(* DBLight: the Single-File backend (Light, system.py), the Sharded        *)
(* backend (MasterLight, MasterLight.py) and the RAM cache tier (flash,    *)
(* flash.py), as state machines.                                           *)
(*                                                                         *)
(* Every handler is an operator from the object's state (a record of its   *)
(* fields) to a record [st, ret, err]: the state it leaves, what it        *)
(* returns and the exception it raises ("ok" when none).  A handler that   *)
(* raises keeps the assignments it made before the raise.  An action       *)
(* applies one handler to the variables.                                   *)
(***************************************************************************)
EXTENDS Integers, Sequences, FiniteSets, TLC

VARIABLES
    flash,      \* the flash object: memory, cache (_cache), deleted (_deleted)
    light,      \* the Light object: cache, dirty_keys, container (the sqlite file)
    master,     \* the MasterLight object and its files
    now,        \* time.time()
    env,        \* the sets the callers draw their arguments from
    ghost,      \* history the claims speak of (never read by a handler)
    rwlock,     \* an RWLock object: _readers, _writing, the condition's waiters
    threads     \* each thread's position in the call it is running, and its locals

vars == <<flash, light, master, now, env, ghost, rwlock, threads>>

(***************************************************************************)
(* Bounds of the model.                                                    *)
(***************************************************************************)
MaxKeys == 2
MaxTime == 2
MAX_SHARD_SIZE == 1
MaxShardId == 2

(***************************************************************************)
(* Python values.  A TTL wrapper is the dict {"val": value, "ttl": expiry}.*)
(***************************************************************************)
NoTTL == -1
PyNone == [ty |-> "none"]
PyStr(s) == [ty |-> "str", s |-> s]
Wrapper(v, e) == [ty |-> "dict", val |-> v, ttl |-> e]
IsWrapper(x) == x.ty = "dict"

\* len(ujson.dumps(value)), in units of the model: "big" stands for a value
\* whose JSON text fills a shard.
RECURSIVE JsonLen(_)
JsonLen(x) ==
    CASE x.ty = "none" -> 1
      [] x.ty = "str" -> IF x.s = "big" THEN 2 ELSE 1
      [] x.ty = "dict" -> JsonLen(x.val)

COMPRESSION_THRESHOLD == 1024

\* ujson.dumps / ujson.loads and zlib.compress / zlib.decompress
dumps(v) == <<"json", v>>
loads(j) == j[2]
compress(j) == <<"zlib", j>>
decompress(c) == c[2]

\* Light._serialize / Shard._serialize: JSON text, zlib-compressed when long.
serialize(v) ==
    IF JsonLen(v) > COMPRESSION_THRESHOLD THEN compress(dumps(v)) ELSE dumps(v)

\* Light._deserialize / Shard._deserialize: bytes are decompressed first.
deserialize(b) == IF b[1] = "zlib" THEN loads(decompress(b)) ELSE loads(b)

(***************************************************************************)
(* Python dicts.  Where the iteration order is observable the dict is a    *)
(* sequence of <<key, value>> pairs in insertion order (OD...); elsewhere  *)
(* it is a function.                                                       *)
(***************************************************************************)
EmptyFn == [x \in {} |-> 0]
FnPut(f, k, v) == (k :> v) @@ f
FnDel(f, k) == [x \in DOMAIN f \ {k} |-> f[x]]
FnUpdate(f, g) == g @@ f
FnGetOr(f, k, d) == IF k \in DOMAIN f THEN f[k] ELSE d

ODHas(d, k) == \E i \in DOMAIN d : d[i][1] = k
ODGet(d, k) == d[CHOOSE i \in DOMAIN d : d[i][1] = k][2]
ODKeys(d) == {d[i][1] : i \in DOMAIN d}
ODPut(d, k, v) ==
    IF ODHas(d, k)
    THEN [i \in DOMAIN d |-> IF d[i][1] = k THEN <<k, v>> ELSE d[i]]
    ELSE Append(d, <<k, v>>)
ODDel(d, k) == SelectSeq(d, LAMBDA p : p[1] # k)
ODMoveToEnd(d, k) == Append(ODDel(d, k), <<k, ODGet(d, k)>>)
ODPopFirst(d) == Tail(d)
ODSetDefault(d, k, v) == IF ODHas(d, k) THEN d ELSE Append(d, <<k, v>>)

\* A Python set or list of keys in some order (the order is not observable).
RECURSIVE SetToSeq(_)
SetToSeq(S) ==
    IF S = {} THEN <<>>
    ELSE LET x == CHOOSE y \in S : TRUE IN <<x>> \o SetToSeq(S \ {x})
SeqToSet(s) == {s[i] : i \in DOMAIN s}

(***************************************************************************)
(* Table names are strings, here sequences of characters, so that the      *)
(* regular expression of Light._table_regex is computed, not assumed.      *)
(***************************************************************************)
WordChars ==
    {"a","b","c","d","e","f","g","h","i","j","k","l","m","n","o","p","q","r",
     "s","t","u","v","w","x","y","z","A","B","C","D","E","F","G","H","I","J",
     "K","L","M","N","O","P","Q","R","S","T","U","V","W","X","Y","Z","0","1",
     "2","3","4","5","6","7","8","9","_"}

\* re.compile(r"^[A-Za-z0-9_]+$").fullmatch
table_regex_fullmatch(name) ==
    /\ Len(name) > 0
    /\ \A i \in DOMAIN name : name[i] \in WordChars

default_table == <<"s","t","o","r","a","g","e">>
users_table == <<"u","s","e","r","s">>
bad_table == <<"u","-","1">>
NoTable == <<>>          \* table=None

\* `table or self.default_table`
TableOr(table) == IF table = NoTable THEN default_table ELSE table

Result(st, ret, err) == [st |-> st, ret |-> ret, err |-> err]

(***************************************************************************)
(* Light (system.py).  L = [cache, dirty_keys, container]; container maps  *)
(* each table of the sqlite file to its rows (key -> serialized value).    *)
(***************************************************************************)
validate_table(name) == table_regex_fullmatch(TableOr(name))

L_create_table(L, table_name) ==
    IF ~validate_table(table_name) THEN Result(L, PyNone, "ValueError")
    ELSE
    LET table == TableOr(table_name)
        sql == IF table \in DOMAIN L.container THEN L.container
               ELSE FnPut(L.container, table, EmptyFn)
    IN  IF table \notin DOMAIN L.cache
        THEN Result([cache |-> FnPut(L.cache, table, EmptyFn),
                     dirty_keys |-> FnPut(L.dirty_keys, table, {}),
                     container |-> sql], PyNone, "ok")
        ELSE Result([L EXCEPT !.container = sql], PyNone, "ok")

\* Light.__init__ on the file `container`
L_init(container) ==
    L_create_table([cache |-> EmptyFn, dirty_keys |-> EmptyFn,
                    container |-> container], default_table).st

L_get_value(L, key, tname) ==
    IF ~validate_table(tname) THEN Result(L, PyNone, "ValueError")
    ELSE
    LET table == TableOr(tname) IN
    IF table \in DOMAIN L.cache /\ key \in DOMAIN L.cache[table]
    THEN Result(L, L.cache[table][key], "ok")
    ELSE IF table \notin DOMAIN L.container
    THEN Result(L, PyNone, "OperationalError")
    ELSE IF key \in DOMAIN L.container[table]
    THEN LET val == deserialize(L.container[table][key])
             c1 == IF table \notin DOMAIN L.cache
                   THEN FnPut(L.cache, table, EmptyFn) ELSE L.cache
         IN  Result([L EXCEPT !.cache = FnPut(c1, table, FnPut(c1[table], key, val))],
                    val, "ok")
    ELSE Result(L, PyNone, "ok")

\* mapping: a function key -> value
L_set_multiple(L, mapping, tname) ==
    IF ~validate_table(tname) THEN Result(L, PyNone, "ValueError")
    ELSE
    LET table == TableOr(tname)
        fresh == table \notin DOMAIN L.cache
        c1 == IF fresh THEN FnPut(L.cache, table, EmptyFn) ELSE L.cache
        d1 == IF fresh THEN FnPut(L.dirty_keys, table, {}) ELSE L.dirty_keys
        c2 == FnPut(c1, table, FnUpdate(c1[table], mapping))
    IN  IF table \notin DOMAIN d1
        THEN Result([L EXCEPT !.cache = c2, !.dirty_keys = d1], PyNone, "KeyError")
        ELSE Result([L EXCEPT !.cache = c2,
                              !.dirty_keys = FnPut(d1, table, d1[table] \cup DOMAIN mapping)],
                    PyNone, "ok")

\* set_value as it would be if it wrote the row at once.  Not the code; C26
\* is checked to tell the two apart.
L_set_value_write_through(L, key, value, tname) ==
    IF ~validate_table(tname) THEN Result(L, PyNone, "ValueError")
    ELSE
    LET table == TableOr(tname)
        c1 == IF table \notin DOMAIN L.cache
              THEN FnPut(L.cache, table, EmptyFn) ELSE L.cache
        rows == FnGetOr(L.container, table, EmptyFn)
    IN  Result([L EXCEPT
                  !.cache = FnPut(c1, table, FnPut(c1[table], key, value)),
                  !.container = FnPut(@, table, FnPut(rows, key, serialize(value)))],
               PyNone, "ok")

L_set_value(L, key, value, tname) ==
    IF ~validate_table(tname) THEN Result(L, PyNone, "ValueError")
    ELSE
    LET table == TableOr(tname)
        fresh == table \notin DOMAIN L.cache
        c1 == IF fresh THEN FnPut(L.cache, table, EmptyFn) ELSE L.cache
        d1 == IF fresh THEN FnPut(L.dirty_keys, table, {}) ELSE L.dirty_keys
        c2 == FnPut(c1, table, FnPut(c1[table], key, value))
    IN  IF table \notin DOMAIN d1
        THEN Result([L EXCEPT !.cache = c2, !.dirty_keys = d1], PyNone, "KeyError")
        ELSE Result([L EXCEPT !.cache = c2,
                              !.dirty_keys = FnPut(d1, table, d1[table] \cup {key})],
                    PyNone, "ok")

\* The sqlite parameter limit the batch queries are cut to.
LIGHT_CHUNK == 900

Min(a, b) == IF a < b THEN a ELSE b

\* get_multiple's loop as it would be if it ended after one chunk.  Not the
\* code; C15 is checked to tell the two apart.
L_get_chunks_once(L, table, missing, i, results) ==
    IF i > Len(missing) THEN Result(L, results, "ok")
    ELSE IF table \notin DOMAIN L.container
    THEN Result(L, results, "OperationalError")
    ELSE
    LET chunk == SubSeq(missing, i, Min(i + LIGHT_CHUNK - 1, Len(missing)))
        rows == {k \in SeqToSet(chunk) : k \in DOMAIN L.container[table]}
        decoded == [k \in rows |-> deserialize(L.container[table][k])]
        c1 == IF rows # {} /\ table \notin DOMAIN L.cache
              THEN FnPut(L.cache, table, EmptyFn) ELSE L.cache
        c2 == IF rows = {} THEN c1
              ELSE FnPut(c1, table, FnUpdate(c1[table], decoded))
    IN  Result([L EXCEPT !.cache = c2], FnUpdate(results, decoded), "ok")

\* The loop `for i in range(0, len(missing), 900)` of get_multiple, from the
\* chunk that starts at position i (1-based); rows found go to results and cache.
RECURSIVE L_get_chunks(_, _, _, _, _)
L_get_chunks(L, table, missing, i, results) ==
    IF i > Len(missing) THEN Result(L, results, "ok")
    ELSE IF table \notin DOMAIN L.container
    THEN Result(L, results, "OperationalError")
    ELSE
    LET chunk == SubSeq(missing, i, Min(i + LIGHT_CHUNK - 1, Len(missing)))
        rows == {k \in SeqToSet(chunk) : k \in DOMAIN L.container[table]}
        decoded == [k \in rows |-> deserialize(L.container[table][k])]
        c1 == IF rows # {} /\ table \notin DOMAIN L.cache
              THEN FnPut(L.cache, table, EmptyFn) ELSE L.cache
        c2 == IF rows = {} THEN c1
              ELSE FnPut(c1, table, FnUpdate(c1[table], decoded))
    IN  L_get_chunks([L EXCEPT !.cache = c2], table, missing, i + LIGHT_CHUNK,
                     FnUpdate(results, decoded))

\* keys: a sequence; returns a function key -> value
L_get_multiple(L, keys, tname) ==
    IF ~validate_table(tname) THEN Result(L, EmptyFn, "ValueError")
    ELSE
    LET table == TableOr(tname)
        table_cache == FnGetOr(L.cache, table, EmptyFn)
        hits == {k \in SeqToSet(keys) : k \in DOMAIN table_cache}
        missing == SelectSeq(keys, LAMBDA k : k \notin DOMAIN table_cache)
    IN  L_get_chunks(L, table, missing, 1, [k \in hits |-> table_cache[k]])

\* The cache and dirty-set part of delete / delete_multiple.
L_forget(L, table, keyset) ==
    [L EXCEPT
        !.cache = IF table \in DOMAIN L.cache
                  THEN FnPut(L.cache, table,
                             [k \in DOMAIN L.cache[table] \ keyset |-> L.cache[table][k]])
                  ELSE L.cache,
        !.dirty_keys = IF table \in DOMAIN L.dirty_keys
                       THEN FnPut(L.dirty_keys, table, L.dirty_keys[table] \ keyset)
                       ELSE L.dirty_keys]

\* DELETE FROM table WHERE key IN keyset, committed
L_sql_delete(L, table, keyset) ==
    [L EXCEPT !.container =
        FnPut(L.container, table,
              [k \in DOMAIN L.container[table] \ keyset |-> L.container[table][k]])]

L_delete_multiple(L, keys, tname) ==
    IF ~validate_table(tname) THEN Result(L, PyNone, "ValueError")
    ELSE
    LET table == TableOr(tname)
        L1 == L_forget(L, table, SeqToSet(keys))
    IN  IF Len(keys) = 0 THEN Result(L1, PyNone, "ok")
        ELSE IF table \notin DOMAIN L1.container
        THEN Result(L1, PyNone, "OperationalError")
        ELSE Result(L_sql_delete(L1, table, SeqToSet(keys)), PyNone, "ok")

L_delete(L, key, tname) ==
    IF ~validate_table(tname) THEN Result(L, PyNone, "ValueError")
    ELSE
    LET table == TableOr(tname)
        L1 == L_forget(L, table, {key})
    IN  IF table \notin DOMAIN L1.container
        THEN Result(L1, PyNone, "OperationalError")
        ELSE Result(L_sql_delete(L1, table, {key}), PyNone, "ok")

L_check(L, key, tname) ==
    IF ~validate_table(tname) THEN Result(L, FALSE, "ValueError")
    ELSE
    LET table == TableOr(tname) IN
    IF table \in DOMAIN L.cache /\ key \in DOMAIN L.cache[table]
    THEN Result(L, TRUE, "ok")
    ELSE IF table \notin DOMAIN L.container
    THEN Result(L, FALSE, "OperationalError")
    ELSE Result(L, key \in DOMAIN L.container[table], "ok")

L_list_keys(L, tname) ==
    IF ~validate_table(tname) THEN Result(L, {}, "ValueError")
    ELSE
    LET table == TableOr(tname) IN
    IF table \notin DOMAIN L.container THEN Result(L, {}, "OperationalError")
    ELSE Result(L, DOMAIN L.container[table]
                     \cup (IF table \in DOMAIN L.cache
                           THEN DOMAIN L.cache[table] ELSE {}), "ok")

\* One round of the loop of Light.flush, for table t_name.
L_flush_table(L, t_name, clear_cache) ==
    IF ~table_regex_fullmatch(t_name) THEN Result(L, PyNone, "ValueError")
    ELSE IF FnGetOr(L.dirty_keys, t_name, {}) = {} THEN Result(L, PyNone, "ok")
    ELSE IF t_name \notin DOMAIN L.cache THEN
        Result([L EXCEPT !.container =
                    IF t_name \in DOMAIN L.container THEN L.container
                    ELSE FnPut(L.container, t_name, EmptyFn)], PyNone, "KeyError")
    ELSE
    LET dirty == L.dirty_keys[t_name]
        batch == [k \in dirty \cap DOMAIN L.cache[t_name]
                    |-> serialize(L.cache[t_name][k])]
        old == FnGetOr(L.container, t_name, EmptyFn)
    IN  Result([cache |-> IF clear_cache THEN FnPut(L.cache, t_name, EmptyFn)
                          ELSE L.cache,
                dirty_keys |-> FnPut(L.dirty_keys, t_name, {}),
                container |-> FnPut(L.container, t_name, FnUpdate(old, batch))],
               PyNone, "ok")

RECURSIVE L_flush_tables(_, _, _)
L_flush_tables(L, tables, clear_cache) ==
    IF tables = <<>> THEN Result(L, TRUE, "ok")
    ELSE LET r == L_flush_table(L, Head(tables), clear_cache)
         IN  IF r.err # "ok" THEN r
             ELSE L_flush_tables(r.st, Tail(tables), clear_cache)

\* tname = NoTable is flush(table=None): every table of dirty_keys
L_flush(L, tname, clear_cache) ==
    L_flush_tables(L, IF tname # NoTable THEN <<tname>>
                      ELSE SetToSeq(DOMAIN L.dirty_keys), clear_cache)

\* Light.close: flush, then the connection is closed; what is left is the file.
L_close(L) == L_flush(L, NoTable, FALSE)

L_list_tables(L) ==
    LET tables == DOMAIN L.container
        new == tables \ DOMAIN L.cache
    IN  Result([L EXCEPT !.cache = [t \in new |-> EmptyFn] @@ L.cache,
                         !.dirty_keys = [t \in new |-> {}] @@ L.dirty_keys],
               tables, "ok")

L_clear_table(L, tname) ==
    IF ~validate_table(tname) THEN Result(L, PyNone, "ValueError")
    ELSE
    LET table == TableOr(tname)
        L1 == [L EXCEPT
                 !.cache = IF table \in DOMAIN L.cache
                           THEN FnPut(L.cache, table, EmptyFn) ELSE L.cache,
                 !.dirty_keys = IF table \in DOMAIN L.dirty_keys
                                THEN FnPut(L.dirty_keys, table, {})
                                ELSE L.dirty_keys]
    IN  IF table \notin DOMAIN L1.container
        THEN Result(L1, PyNone, "OperationalError")
        ELSE Result([L1 EXCEPT !.container = FnPut(L1.container, table, EmptyFn)],
                    TRUE, "ok")

L_drop_table(L, tname) ==
    IF ~validate_table(tname) THEN Result(L, PyNone, "ValueError")
    ELSE
    LET table == TableOr(tname) IN
    Result([cache |-> FnDel(L.cache, table),
            dirty_keys |-> FnDel(L.dirty_keys, table),
            container |-> FnDel(L.container, table)], TRUE, "ok")

L_get_all(L, tname) ==
    IF ~validate_table(tname) THEN Result(L, EmptyFn, "ValueError")
    ELSE
    LET table == TableOr(tname) IN
    IF table \notin DOMAIN L.container THEN Result(L, EmptyFn, "OperationalError")
    ELSE Result(L, [k \in DOMAIN L.container[table]
                        |-> deserialize(L.container[table][k])], "ok")


(***************************************************************************)
(* MasterLight (MasterLight.py).                                           *)
(* M = [idx, memo, active_shard_id, shards, files]:                        *)
(*   idx     the rows of master_index.db, <<table, key>> -> shard id       *)
(*   memo    the entries of the lru_cache of _lookup_shard_id, among them  *)
(*           the memoized None (NoShard); its maxsize of 10000 entries is  *)
(*           never reached here                                            *)
(*   shards  the open Shard objects, shard id -> [cache, dirty, last_size] *)
(*   files   the shard files, shard id -> [tables, size]: the rows of each *)
(*           table as the connection sees them, and the size of the main   *)
(*           database file in pages, one page per row.  The files are in   *)
(*           WAL mode: committed rows reach the main file, and so its      *)
(*           size, at a checkpoint only, and a file never shrinks.         *)
(* Table names are drawn from identifiers SQLite accepts.                  *)
(***************************************************************************)
NoShard == -1       \* `sid is None`

Max(a, b) == IF a > b THEN a ELSE b

EmptyFile == [tables |-> EmptyFn, size |-> 0]

RECURSIVE RowCount(_, _)
RowCount(tables, ts) ==
    IF ts = {} THEN 0
    ELSE LET t == CHOOSE x \in ts : TRUE
         IN  Cardinality(DOMAIN tables[t]) + RowCount(tables, ts \ {t})

\* A WAL checkpoint: the committed rows are written to the main file.
Checkpoint(file) ==
    [file EXCEPT !.size = Max(@, RowCount(file.tables, DOMAIN file.tables))]

\* Shard.__init__: sqlite3.connect creates the file; _last_size is its size
Shard(file) == [cache |-> EmptyFn, dirty |-> EmptyFn, last_size |-> file.size]

\* _get_shard: M with shard_id open
get_shard(M, shard_id) ==
    IF shard_id \in DOMAIN M.shards THEN M
    ELSE LET files == IF shard_id \in DOMAIN M.files THEN M.files
                      ELSE FnPut(M.files, shard_id, EmptyFile)
         IN  [M EXCEPT !.files = files,
                       !.shards = FnPut(M.shards, shard_id, Shard(files[shard_id]))]

\* SELECT MAX(shard_id) FROM idx, 0 when there is no row
get_last_shard_id(idx) ==
    IF DOMAIN idx = {} THEN 0
    ELSE CHOOSE s \in {idx[x] : x \in DOMAIN idx} : \A x \in DOMAIN idx : idx[x] <= s

\* MasterLight.__init__ on the index rows and shard files of base_path; the
\* lru_cache is keyed by the instance, so a new instance starts without entries
M_init(idx, files) ==
    [idx |-> idx, memo |-> EmptyFn, active_shard_id |-> get_last_shard_id(idx),
     shards |-> EmptyFn, files |-> files]

\* _lookup_shard_id under @lru_cache: a memoized answer is returned as it is
lookup_shard_id(M, table, key) ==
    IF <<table, key>> \in DOMAIN M.memo
    THEN Result(M, M.memo[<<table, key>>], "ok")
    ELSE LET sid == FnGetOr(M.idx, <<table, key>>, NoShard)
         IN  Result([M EXCEPT !.memo = FnPut(@, <<table, key>>, sid)], sid, "ok")

cache_clear(M) == [M EXCEPT !.memo = EmptyFn]

\* The first loop of set_multiple, `for k, v in mapping.items()`: groups is
\* the dict sid -> {k: v} in insertion order, new_idx the list of new rows.
RECURSIVE M_assign(_, _, _, _, _)
M_assign(M, t, mapping, groups, new_idx) ==
    IF mapping = <<>> THEN [st |-> M, groups |-> groups, new_idx |-> new_idx]
    ELSE
    LET k == Head(mapping)[1]
        v == Head(mapping)[2]
        lk == lookup_shard_id(M, t, k)
        isnew == lk.ret = NoShard
        M1 == get_shard(lk.st, lk.st.active_shard_id)
        M2 == IF M1.shards[M1.active_shard_id].last_size > MAX_SHARD_SIZE
              THEN [M1 EXCEPT !.active_shard_id = @ + 1] ELSE M1
        sid == IF isnew THEN M2.active_shard_id ELSE lk.ret
        g1 == ODSetDefault(groups, sid, EmptyFn)
    IN  M_assign(IF isnew THEN cache_clear(M2) ELSE lk.st, t, Tail(mapping),
                 ODPut(g1, sid, FnPut(ODGet(g1, sid), k, v)),
                 IF isnew THEN Append(new_idx, <<t, k, sid>>) ELSE new_idx)

\* INSERT OR REPLACE INTO idx VALUES (?,?,?) for the rows of new_idx, committed
M_index_insert(idx, new_idx) ==
    LET rows == SeqToSet(new_idx)
    IN  [p \in {<<n[1], n[2]>> : n \in rows} |->
            (CHOOSE n \in rows : n[1] = p[1] /\ n[2] = p[2])[3]] @@ idx

\* The second loop of set_multiple, `for sid, dmap in groups.items()`, from
\* group i
RECURSIVE M_pass(_, _, _, _)
M_pass(M, t, groups, i) ==
    IF i > Len(groups) THEN Result(M, PyNone, "ok")
    ELSE
    LET sid == groups[i][1]
        dmap == groups[i][2]
        M1 == get_shard(M, sid)
        sh == M1.shards[sid]
        fresh == t \notin DOMAIN sh.cache
        c1 == IF fresh THEN FnPut(sh.cache, t, EmptyFn) ELSE sh.cache
        d1 == IF fresh THEN FnPut(sh.dirty, t, {}) ELSE sh.dirty
        c2 == FnPut(c1, t, FnUpdate(c1[t], dmap))
    IN  IF t \notin DOMAIN d1
        THEN Result([M1 EXCEPT !.shards =
                        FnPut(@, sid, [sh EXCEPT !.cache = c2, !.dirty = d1])],
                    PyNone, "KeyError")
        ELSE M_pass([M1 EXCEPT !.shards =
                        FnPut(@, sid, [sh EXCEPT !.cache = c2,
                                          !.dirty = FnPut(d1, t, d1[t] \cup DOMAIN dmap)])],
                    t, groups, i + 1)

\* mapping: a sequence of <<key, value>> in dict order
M_set_multiple(M, mapping, tname) ==
    LET t == TableOr(tname)
        a == M_assign(M, t, mapping, <<>>, <<>>)
    IN  M_pass([a.st EXCEPT !.idx = M_index_insert(a.st.idx, a.new_idx)],
               t, a.groups, 1)

M_set_value(M, key, value, tname) == M_set_multiple(M, << <<key, value>> >>, tname)

\* CREATE TABLE IF NOT EXISTS t on the file of shard sid
M_create_in_file(M, sid, t) ==
    IF t \in DOMAIN M.files[sid].tables THEN M
    ELSE [M EXCEPT !.files =
            FnPut(@, sid, [M.files[sid] EXCEPT !.tables = FnPut(@, t, EmptyFn)])]

M_get_value(M, key, tname, default) ==
    LET t == TableOr(tname)
        lk == lookup_shard_id(M, t, key)
        sid == lk.ret
        M1 == get_shard(lk.st, sid)
        sh == M1.shards[sid]
        M2 == M_create_in_file(M1, sid, t)
        rows == M2.files[sid].tables[t]
        val == deserialize(rows[key])
        c1 == IF t \notin DOMAIN sh.cache THEN FnPut(sh.cache, t, EmptyFn)
              ELSE sh.cache
    IN  IF sid = NoShard THEN Result(lk.st, default, "ok")
        ELSE IF t \in DOMAIN sh.cache /\ key \in DOMAIN sh.cache[t]
        THEN Result(M1, sh.cache[t][key], "ok")
        ELSE IF key \in DOMAIN rows
        THEN Result([M2 EXCEPT !.shards =
                        FnPut(@, sid, [sh EXCEPT !.cache =
                                          FnPut(c1, t, FnPut(c1[t], key, val))])],
                    val, "ok")
        ELSE Result(M2, default, "ok")

\* The sqlite parameter limit MasterLight cuts its batch queries to.
SHARD_CHUNK == 999

\* get_multiple's loop `for i in range(0, len(miss), 999)` on the shard sid,
\* from the chunk that starts at position i (1-based)
RECURSIVE M_get_chunks(_, _, _, _, _, _)
M_get_chunks(M, sid, t, miss, i, results) ==
    IF i > Len(miss) THEN Result(M, results, "ok")
    ELSE
    LET chunk == SubSeq(miss, i, Min(i + SHARD_CHUNK - 1, Len(miss)))
        rows == {k \in SeqToSet(chunk) : k \in DOMAIN M.files[sid].tables[t]}
        decoded == [k \in rows |-> deserialize(M.files[sid].tables[t][k])]
        sh == M.shards[sid]
        c1 == IF rows # {} /\ t \notin DOMAIN sh.cache
              THEN FnPut(sh.cache, t, EmptyFn) ELSE sh.cache
        c2 == IF rows = {} THEN c1 ELSE FnPut(c1, t, FnUpdate(c1[t], decoded))
    IN  M_get_chunks([M EXCEPT !.shards = FnPut(@, sid, [sh EXCEPT !.cache = c2])],
                     sid, t, miss, i + SHARD_CHUNK, FnUpdate(results, decoded))

\* get_multiple's loop over shard_groups; sidof: the shard id looked up for
\* each key.  A shard reads and writes only its own cache and file, so the
\* order in which the groups are taken does not show in the result.
RECURSIVE M_get_groups(_, _, _, _, _, _)
M_get_groups(M, t, keys, sidof, sids, results) ==
    IF sids = <<>> THEN Result(M, results, "ok")
    ELSE
    LET sid == Head(sids)
        skeys == SelectSeq(keys, LAMBDA k : sidof[k] = sid)
        M1 == get_shard(M, sid)
        tc == FnGetOr(M1.shards[sid].cache, t, EmptyFn)
        hits == {k \in SeqToSet(skeys) : k \in DOMAIN tc}
        miss == SelectSeq(skeys, LAMBDA k : k \notin DOMAIN tc)
        M2 == IF miss # <<>> THEN M_create_in_file(M1, sid, t) ELSE M1
        r == M_get_chunks(M2, sid, t, miss, 1,
                          FnUpdate(results, [k \in hits |-> tc[k]]))
    IN  M_get_groups(r.st, t, keys, sidof, Tail(sids), r.ret)

\* get_multiple; the lookups of its first loop are memoized as those of
\* lookup_shard_id are
M_get_multiple(M, keys, tname) ==
    LET t == TableOr(tname)
        looked == {<<t, k>> : k \in SeqToSet(keys)}
        memo == [x \in DOMAIN M.memo \cup looked |->
                    IF x \in DOMAIN M.memo THEN M.memo[x]
                    ELSE FnGetOr(M.idx, x, NoShard)]
        sidof == [k \in SeqToSet(keys) |-> memo[<<t, k>>]]
        sids == {sidof[k] : k \in SeqToSet(keys)} \ {NoShard}
    IN  M_get_groups([M EXCEPT !.memo = memo], t, keys, sidof, SetToSeq(sids), EmptyFn)

\* The first loop of delete_multiple: groups is the dict sid -> [keys]
RECURSIVE M_group(_, _, _, _)
M_group(M, t, keys, groups) ==
    IF keys = <<>> THEN [st |-> M, groups |-> groups]
    ELSE
    LET lk == lookup_shard_id(M, t, Head(keys))
        g1 == ODSetDefault(groups, lk.ret, <<>>)
    IN  M_group(lk.st, t, Tail(keys),
                IF lk.ret = NoShard THEN groups
                ELSE ODPut(g1, lk.ret, Append(ODGet(g1, lk.ret), Head(keys))))

\* The second loop of delete_multiple, from group i; DELETE FROM t raises
\* when the shard file has no table t
RECURSIVE M_delete_groups(_, _, _, _)
M_delete_groups(M, t, groups, i) ==
    IF i > Len(groups) THEN Result(M, PyNone, "ok")
    ELSE
    LET sid == groups[i][1]
        skeys == SeqToSet(groups[i][2])
        M1 == get_shard(M, sid)
        sh == M1.shards[sid]
        sh1 == [sh EXCEPT
                  !.cache = IF t \in DOMAIN sh.cache
                            THEN FnPut(sh.cache, t,
                                       [k \in DOMAIN sh.cache[t] \ skeys |-> sh.cache[t][k]])
                            ELSE sh.cache,
                  !.dirty = IF t \in DOMAIN sh.dirty
                            THEN FnPut(sh.dirty, t, sh.dirty[t] \ skeys)
                            ELSE sh.dirty]
        M2 == [M1 EXCEPT !.shards = FnPut(@, sid, sh1)]
        file == M2.files[sid]
    IN  IF t \notin DOMAIN file.tables THEN Result(M2, PyNone, "OperationalError")
        ELSE M_delete_groups(
                 [M2 EXCEPT !.files =
                     FnPut(@, sid, [file EXCEPT !.tables =
                         FnPut(@, t, [k \in DOMAIN file.tables[t] \ skeys
                                         |-> file.tables[t][k]])])],
                 t, groups, i + 1)

\* keys: a sequence
M_delete_multiple(M, keys, tname) ==
    LET t == TableOr(tname)
        g == M_group(M, t, keys, <<>>)
        r == M_delete_groups(g.st, t, g.groups, 1)
        gone == {<<t, k>> : k \in SeqToSet(keys)}
    IN  IF r.err # "ok" \/ keys = <<>> THEN r
        ELSE Result(cache_clear([r.st EXCEPT !.idx =
                        [x \in DOMAIN r.st.idx \ gone |-> r.st.idx[x]]]),
                    PyNone, "ok")

M_delete(M, key, tname) == M_delete_multiple(M, <<key>>, tname)

M_check(M, key, tname) ==
    LET lk == lookup_shard_id(M, TableOr(tname), key)
    IN  Result(lk.st, lk.ret # NoShard, "ok")

\* The loop `for t, ks in shard._dirty.items()` of flush on one shard and its
\* file, over the tables ts; a dirty key without a cache entry is a KeyError
RECURSIVE M_flush_tables(_, _, _)
M_flush_tables(sh, file, ts) ==
    IF ts = <<>> THEN [sh |-> sh, file |-> file, err |-> "ok"]
    ELSE
    LET t == Head(ts)
        ks == sh.dirty[t]
        old == FnGetOr(file.tables, t, EmptyFn)
    IN  IF ks = {} THEN M_flush_tables(sh, file, Tail(ts))
        ELSE IF t \notin DOMAIN sh.cache \/ ~(ks \subseteq DOMAIN sh.cache[t])
        THEN [sh |-> sh, file |-> file, err |-> "KeyError"]
        ELSE M_flush_tables(
                 [sh EXCEPT !.dirty = FnPut(@, t, {})],
                 [file EXCEPT !.tables =
                     FnPut(@, t, FnUpdate(old, [k \in ks |-> serialize(sh.cache[t][k])]))],
                 Tail(ts))

\* The loop `for shard in self.shards.values()` of flush, over the shards
\* sids; checkpointed: sqlite's automatic checkpoint ran on these commits
RECURSIVE M_flush_shards(_, _, _, _)
M_flush_shards(M, sids, clear_cache, checkpointed) ==
    IF sids = <<>> THEN Result(M, TRUE, "ok")
    ELSE
    LET sid == Head(sids)
        r == M_flush_tables(M.shards[sid], M.files[sid],
                            SetToSeq(DOMAIN M.shards[sid].dirty))
        file == IF checkpointed THEN Checkpoint(r.file) ELSE r.file
        sh == [r.sh EXCEPT !.cache = IF clear_cache THEN EmptyFn ELSE @,
                           !.last_size = file.size]
    IN  IF r.err # "ok"
        THEN Result([M EXCEPT !.shards = FnPut(@, sid, r.sh),
                              !.files = FnPut(@, sid, r.file)], PyNone, r.err)
        ELSE M_flush_shards([M EXCEPT !.shards = FnPut(@, sid, sh),
                                      !.files = FnPut(@, sid, file)],
                            Tail(sids), clear_cache, checkpointed)

M_flush(M, clear_cache, checkpointed) ==
    M_flush_shards(M, SetToSeq(DOMAIN M.shards), clear_cache, checkpointed)

\* close: flush, then the connections are closed, which checkpoints the file
\* of every open shard; what is left is the index and the files
M_close(M) ==
    LET r == M_flush(M, FALSE, FALSE)
    IN  IF r.err # "ok" THEN r
        ELSE Result([r.st EXCEPT !.files =
                        [sid \in DOMAIN r.st.files |->
                            IF sid \in DOMAIN r.st.shards
                            THEN Checkpoint(r.st.files[sid]) ELSE r.st.files[sid]]],
                    PyNone, "ok")

(***************************************************************************)
(* flash (flash.py) over a Light backend.                                  *)
(* F = [max_keys, memory, cache, deleted]: memory maps a table to its      *)
(* OrderedDict key -> wrapper (oldest first); cache (_cache) and deleted   *)
(* (_deleted) are dicts by table, in insertion order, of the dirty         *)
(* wrappers and of the keys pending deletion.  A handler returns           *)
(* [f, db, ret, err]: the flash fields, the backend, the value returned    *)
(* and the exception raised.  middleware (_middleware) is the list of the  *)
(* registered middlewares, watchers (_watchers) the lists of callbacks by  *)
(* key.  A middleware or callback is [id, fails]: the model knows of a     *)
(* user function only its name and whether it raises.  A write also        *)
(* returns calls, the <<callback id, value>> of the watchers it invoked.   *)
(***************************************************************************)
FResult(F, L, ret, err) == [f |-> F, db |-> L, ret |-> ret, err |-> err]
FCalls(r, calls) ==
    [f |-> r.f, db |-> r.db, ret |-> r.ret, err |-> r.err, calls |-> calls]

\* flash.__init__(backend="light", preload=False) on the file `container`
F_init(maxkeys, container) ==
    FResult([max_keys |-> maxkeys, memory |-> EmptyFn, cache |-> <<>>,
             deleted |-> <<>>, middleware |-> <<>>, watchers |-> EmptyFn],
            L_init(container), PyNone, "ok")

\* _manage_memory as it would be with popitem(last=True): the newest entry
\* is popped.  Not the code; C6 is checked to tell the two apart.
manage_memory_newest(maxkeys, od) ==
    IF Len(od) > maxkeys THEN SubSeq(od, 1, Len(od) - 1) ELSE od

\* _manage_memory on one table's OrderedDict: popitem(last=False)
manage_memory(maxkeys, od) ==
    IF Len(od) > maxkeys THEN ODPopFirst(od) ELSE od

\* `if t not in self.memory: self.memory[t] = OrderedDict()`
MemTable(memory, t) == IF t \in DOMAIN memory THEN memory ELSE FnPut(memory, t, <<>>)

\* `time.time() + ttl if ttl else None`; ttl = 0 is ttl=None
Expiry(t_now, ttl) == IF ttl # 0 THEN t_now + ttl ELSE NoTTL

\* use(func) and watch(key, callback)
F_use(F, L, func) ==
    FResult([F EXCEPT !.middleware = Append(@, func)], L, PyNone, "ok")

F_watch(F, L, key, callback) ==
    FResult([F EXCEPT !.watchers =
                FnPut(@, key, Append(FnGetOr(@, key, <<>>), callback))],
            L, PyNone, "ok")

\* mw(key, value): a middleware that returns marks the string it is given
\* with its name
mw_call(mw, key, value) ==
    IF mw.fails THEN [val |-> value, err |-> "MiddlewareError"]
    ELSE [val |-> IF value.ty = "str" THEN PyStr(value.s \o "+" \o mw.id) ELSE value,
          err |-> "ok"]

\* The chain applied from the last registered middleware to the first.  Not
\* the code; C16 is checked to tell the two apart.
RECURSIVE run_middleware_reversed(_, _, _)
run_middleware_reversed(mws, key, value) ==
    IF mws = <<>> THEN [val |-> value, err |-> "ok"]
    ELSE LET r == mw_call(mws[Len(mws)], key, value)
         IN  IF r.err # "ok" THEN r
             ELSE run_middleware_reversed(SubSeq(mws, 1, Len(mws) - 1), key, r.val)

\* `for mw in self._middleware: value = mw(key, value)`
RECURSIVE run_middleware(_, _, _)
run_middleware(mws, key, value) ==
    IF mws = <<>> THEN [val |-> value, err |-> "ok"]
    ELSE LET r == mw_call(Head(mws), key, value)
         IN  IF r.err # "ok" THEN r
             ELSE run_middleware(Tail(mws), key, r.val)

\* set_value's `for cb in self._watchers[key]: cb(value)`: a callback that
\* raises ends the loop
RECURSIVE run_watchers(_, _)
run_watchers(cbs, value) ==
    IF cbs = <<>> THEN [calls |-> <<>>, err |-> "ok"]
    ELSE IF Head(cbs).fails
    THEN [calls |-> << <<Head(cbs).id, value>> >>, err |-> "WatcherError"]
    ELSE LET r == run_watchers(Tail(cbs), value)
         IN  [calls |-> << <<Head(cbs).id, value>> >> \o r.calls, err |-> r.err]

\* set_multiple's `try: cb(value) / except: pass` around each callback
run_watchers_guarded(cbs, value) ==
    [calls |-> [i \in DOMAIN cbs |-> <<cbs[i].id, value>>], err |-> "ok"]

\* set_value as it would be without `self._deleted[t].discard(key)`.  Not
\* the code; C29 is checked to tell the two apart.
F_set_value_keeps_pending(F, L, key, value, tname, ttl, t_now) ==
    LET t == TableOr(tname)
        mw == run_middleware(F.middleware, key, value)
        wrapper == Wrapper(mw.val, Expiry(t_now, ttl))
        m1 == MemTable(F.memory, t)
        c1 == ODSetDefault(F.cache, t, EmptyFn)
        od == ODMoveToEnd(ODPut(m1[t], key, wrapper), key)
        w == run_watchers(FnGetOr(F.watchers, key, <<>>), mw.val)
    IN  IF mw.err # "ok" THEN FCalls(FResult(F, L, PyNone, mw.err), <<>>)
        ELSE FCalls(FResult([F EXCEPT
                    !.memory = FnPut(m1, t, manage_memory(F.max_keys, od)),
                    !.cache = ODPut(c1, t, FnPut(ODGet(c1, t), key, wrapper)),
                    !.deleted = ODSetDefault(F.deleted, t, {})],
                L, PyNone, w.err), w.calls)

F_set_value(F, L, key, value, tname, ttl, t_now) ==
    LET t == TableOr(tname)
        mw == run_middleware(F.middleware, key, value)
        wrapper == Wrapper(mw.val, Expiry(t_now, ttl))
        m1 == MemTable(F.memory, t)
        c1 == ODSetDefault(F.cache, t, EmptyFn)
        d1 == ODSetDefault(F.deleted, t, {})
        od == ODMoveToEnd(ODPut(m1[t], key, wrapper), key)
        w == run_watchers(FnGetOr(F.watchers, key, <<>>), mw.val)
    IN  IF mw.err # "ok" THEN FCalls(FResult(F, L, PyNone, mw.err), <<>>)
        ELSE FCalls(FResult([F EXCEPT
                    !.memory = FnPut(m1, t, manage_memory(F.max_keys, od)),
                    !.cache = ODPut(c1, t, FnPut(ODGet(c1, t), key, wrapper)),
                    !.deleted = ODPut(d1, t, ODGet(d1, t) \ {key})],
                L, PyNone, w.err), w.calls)

\* delete as it would be without `self._cache[t].pop(key, None)`.  Not the
\* code; C13 is checked to tell the two apart.
F_delete_keeps_dirty(F, L, key, tname) ==
    LET t == TableOr(tname)
        d1 == ODSetDefault(F.deleted, t, {})
    IN  FResult([F EXCEPT
                    !.memory = IF t \in DOMAIN F.memory
                               THEN FnPut(F.memory, t, ODDel(F.memory[t], key))
                               ELSE F.memory,
                    !.deleted = ODPut(d1, t, ODGet(d1, t) \cup {key})],
                L, PyNone, "ok")

F_delete(F, L, key, tname) ==
    LET t == TableOr(tname)
        d1 == ODSetDefault(F.deleted, t, {})
    IN  FResult([F EXCEPT
                    !.memory = IF t \in DOMAIN F.memory
                               THEN FnPut(F.memory, t, ODDel(F.memory[t], key))
                               ELSE F.memory,
                    !.cache = IF ODHas(F.cache, t)
                              THEN ODPut(F.cache, t, FnDel(ODGet(F.cache, t), key))
                              ELSE F.cache,
                    !.deleted = ODPut(d1, t, ODGet(d1, t) \cup {key})],
                L, PyNone, "ok")

\* `time.time() > item["ttl"]` for an item that has a ttl
Expired(item, t_now) == item.ttl # NoTTL /\ t_now > item.ttl

F_get_value(F, L, key, tname, default, t_now) ==
    LET t == TableOr(tname)
        m1 == MemTable(F.memory, t)
        F1 == [F EXCEPT !.memory = m1]
        hit == ODHas(m1[t], key)
        r == L_get_value(L, key, t)
        raw == r.ret
        \* the lazy load: wrap what the backend returned, insert, evict
        loaded == IF IsWrapper(raw) THEN raw ELSE Wrapper(raw, NoTTL)
        item == IF hit THEN ODGet(m1[t], key) ELSE loaded
        F2 == IF hit THEN F1
              ELSE [F1 EXCEPT !.memory =
                       FnPut(m1, t, manage_memory(F.max_keys,
                                                  ODPut(m1[t], key, loaded)))]
        L2 == IF hit THEN L ELSE r.st
    IN  IF ~hit /\ r.err # "ok" THEN FResult(F1, r.st, default, "ok")
        ELSE IF Expired(item, t_now)
        THEN FResult(F_delete(F2, L2, key, t).f, L2, default, "ok")
        ELSE IF ~ODHas(F2.memory[t], key) THEN FResult(F2, L2, PyNone, "KeyError")
        ELSE FResult([F2 EXCEPT !.memory =
                         FnPut(F2.memory, t, ODMoveToEnd(F2.memory[t], key))],
                     L2, item.val, "ok")

\* The first loop of flush, from entry i of _deleted.
RECURSIVE F_flush_deleted(_, _, _)
F_flush_deleted(F, L, i) ==
    IF i > Len(F.deleted) THEN FResult(F, L, PyNone, "ok")
    ELSE
    LET t_name == F.deleted[i][1]
        keys_to_del == F.deleted[i][2]
        r == L_delete_multiple(L, SetToSeq(keys_to_del), t_name)
    IN  IF keys_to_del = {} THEN F_flush_deleted(F, L, i + 1)
        ELSE IF r.err # "ok" THEN FResult(F, r.st, PyNone, r.err)
        ELSE F_flush_deleted([F EXCEPT !.deleted = ODPut(F.deleted, t_name, {})],
                             r.st, i + 1)

\* The second loop of flush as it would be if it emptied a table's dirty map
\* before the Backend had taken it.  Not the code; C27 is checked to tell the
\* two apart.
RECURSIVE F_flush_cache_clears_first(_, _, _)
F_flush_cache_clears_first(F, L, i) ==
    IF i > Len(F.cache) THEN FResult(F, L, PyNone, "ok")
    ELSE
    LET t_name == F.cache[i][1]
        dirty_data == F.cache[i][2]
        F1 == [F EXCEPT !.cache = ODPut(F.cache, t_name, EmptyFn)]
        r == L_set_multiple(L, dirty_data, t_name)
    IN  IF DOMAIN dirty_data = {} THEN F_flush_cache_clears_first(F, L, i + 1)
        ELSE IF r.err # "ok" THEN FResult(F1, r.st, PyNone, r.err)
        ELSE F_flush_cache_clears_first(F1, r.st, i + 1)

\* The second loop of flush, from entry i of _cache.
RECURSIVE F_flush_cache(_, _, _)
F_flush_cache(F, L, i) ==
    IF i > Len(F.cache) THEN FResult(F, L, PyNone, "ok")
    ELSE
    LET t_name == F.cache[i][1]
        dirty_data == F.cache[i][2]
        r == L_set_multiple(L, dirty_data, t_name)
    IN  IF DOMAIN dirty_data = {} THEN F_flush_cache(F, L, i + 1)
        ELSE IF r.err # "ok" THEN FResult(F, r.st, PyNone, r.err)
        ELSE F_flush_cache([F EXCEPT !.cache = ODPut(F.cache, t_name, EmptyFn)],
                           r.st, i + 1)

F_flush(F, L) ==
    LET r1 == F_flush_deleted(F, L, 1)
        r2 == F_flush_cache(r1.f, r1.db, 1)
        r3 == L_flush(r2.db, NoTable, FALSE)
    IN  IF r1.err # "ok" THEN r1
        ELSE IF r2.err # "ok" THEN r2
        ELSE FResult(r2.f, r3.st, TRUE, r3.err)

F_check(F, L, key, tname) ==
    LET t == TableOr(tname)
        r == L_check(L, key, t)
    IN  IF t \in DOMAIN F.memory /\ ODHas(F.memory[t], key)
        THEN FResult(F, L, TRUE, "ok")
        ELSE FResult(F, r.st, r.ret, r.err)

\* One pass of the loop of _start_ttl_monitor's run(), after its sleep.
RECURSIVE F_delete_all(_, _, _, _)
F_delete_all(F, L, keys, t_name) ==
    IF keys = <<>> THEN F
    ELSE F_delete_all(F_delete(F, L, Head(keys), t_name).f, L, Tail(keys), t_name)

RECURSIVE F_sweep_tables(_, _, _, _)
F_sweep_tables(F, L, tables, t_now) ==
    IF tables = <<>> THEN F
    ELSE
    LET t_name == Head(tables)
        table_dict == F.memory[t_name]
        expired == SelectSeq([i \in DOMAIN table_dict |-> table_dict[i][1]],
                             LAMBDA k : Expired(ODGet(table_dict, k), t_now))
    IN  F_sweep_tables(F_delete_all(F, L, expired, t_name), L, Tail(tables), t_now)

F_sweep(F, L, t_now) ==
    FResult(F_sweep_tables(F, L, SetToSeq(DOMAIN F.memory), t_now), L, PyNone, "ok")

\* flash.close: flush, then db.close(); when flush raises the backend stays open.
F_close(F, L) ==
    LET r == F_flush(F, L)
        c == L_close(r.db)
    IN  IF r.err # "ok" THEN r ELSE FResult(r.f, c.st, PyNone, c.err)

\* set_multiple (the definition at the end of the class, which replaces the
\* earlier one); mapping: a sequence of <<key, value>> in dict order.
\* F_set_items is its loop from item i on, with the calls made so far; it
\* returns [f, err, calls].
RECURSIVE F_set_items(_, _, _, _, _, _)
F_set_items(F, t, mapping, i, expiry, calls) ==
    IF i > Len(mapping) THEN [f |-> F, err |-> "ok", calls |-> calls]
    ELSE
    LET key == mapping[i][1]
        mw == run_middleware(F.middleware, key, mapping[i][2])
        wrapper == Wrapper(mw.val, expiry)
        w == run_watchers_guarded(FnGetOr(F.watchers, key, <<>>), mw.val)
    IN  IF mw.err # "ok" THEN [f |-> F, err |-> mw.err, calls |-> calls]
        ELSE F_set_items(
            [F EXCEPT
                !.memory = FnPut(F.memory, t,
                                 ODMoveToEnd(ODPut(F.memory[t], key, wrapper), key)),
                !.cache = ODPut(F.cache, t, FnPut(ODGet(F.cache, t), key, wrapper)),
                !.deleted = ODPut(F.deleted, t, ODGet(F.deleted, t) \ {key})],
            t, mapping, i + 1, expiry, calls \o w.calls)

RECURSIVE PopWhileOver(_, _)
PopWhileOver(maxkeys, od) ==
    IF Len(od) > maxkeys THEN PopWhileOver(maxkeys, ODPopFirst(od)) ELSE od

F_set_multiple(F, L, mapping, tname, ttl, t_now) ==
    LET t == TableOr(tname)
        F1 == [F EXCEPT !.memory = MemTable(F.memory, t),
                        !.cache = ODSetDefault(F.cache, t, EmptyFn),
                        !.deleted = ODSetDefault(F.deleted, t, {})]
        r == F_set_items(F1, t, mapping, 1, Expiry(t_now, ttl), <<>>)
        F2 == r.f
    IN  IF r.err # "ok" THEN FCalls(FResult(F2, L, PyNone, r.err), r.calls)
        ELSE FCalls(FResult([F2 EXCEPT !.memory =
                    FnPut(F2.memory, t, PopWhileOver(F.max_keys, F2.memory[t]))],
                L, PyNone, "ok"), r.calls)

\* get_multiple (the definition at the end of the class): get_value on each
\* key, keeping what is not None
RECURSIVE F_get_items(_, _, _, _, _, _)
F_get_items(F, L, keys, t, t_now, results) ==
    IF keys = <<>> THEN FResult(F, L, results, "ok")
    ELSE LET r == F_get_value(F, L, Head(keys), t, PyNone, t_now)
         IN  IF r.err # "ok" THEN FResult(r.f, r.db, results, r.err)
             ELSE F_get_items(r.f, r.db, Tail(keys), t, t_now,
                              IF r.ret # PyNone THEN FnPut(results, Head(keys), r.ret)
                              ELSE results)

F_get_multiple(F, L, keys, tname, t_now) ==
    F_get_items(F, L, keys, TableOr(tname), t_now, EmptyFn)

\* delete_multiple (the definition at the end of the class)
F_delete_multiple(F, L, keys, tname) ==
    LET t == TableOr(tname)
        m1 == MemTable(F.memory, t)
        c1 == ODSetDefault(F.cache, t, EmptyFn)
        d1 == ODSetDefault(F.deleted, t, {})
        gone == SeqToSet(keys)
    IN  FResult([F EXCEPT
                    !.memory = FnPut(m1, t, SelectSeq(m1[t], LAMBDA e : e[1] \notin gone)),
                    !.cache = ODPut(c1, t, [k \in DOMAIN ODGet(c1, t) \ gone
                                               |-> ODGet(c1, t)[k]]),
                    !.deleted = ODPut(d1, t, ODGet(d1, t) \cup gone)],
                L, PyNone, "ok")

\* get_all: the backend's rows, overlaid with the entries of the recency map
\* that have not expired, less the keys pending deletion
RECURSIVE F_overlay(_, _, _)
F_overlay(all_data, items, t_now) ==
    IF items = <<>> THEN all_data
    ELSE LET k == Head(items)[1]
             wrapper == Head(items)[2]
         IN  IF Expired(wrapper, t_now) THEN F_overlay(all_data, Tail(items), t_now)
             ELSE F_overlay(FnPut(all_data, k, wrapper.val), Tail(items), t_now)

F_get_all(F, L, tname, t_now) ==
    LET t == TableOr(tname)
        r == L_get_all(L, t)
        overlaid == IF t \in DOMAIN F.memory
                    THEN F_overlay(r.ret, F.memory[t], t_now) ELSE r.ret
        all_data == IF ODHas(F.deleted, t)
                    THEN [k \in DOMAIN overlaid \ ODGet(F.deleted, t) |-> overlaid[k]]
                    ELSE overlaid
    IN  IF r.err # "ok" THEN FResult(F, r.st, EmptyFn, r.err)
        ELSE FResult(F, r.st, all_data, "ok")

(***************************************************************************)
(* History variables of the flash specifications.                          *)
(*   hist[<<t, k>>]: the last set or delete of key k of table t            *)
(*   lru[t]: the keys of t in the order of their last set-or-get, kept     *)
(*           while t has seen only sets and gets of resident keys (ok),    *)
(*           and whether one of these was a get (got)                      *)
(*   fresh: the instance was opened after a flush/close and has seen only  *)
(*           reads since                                                   *)
(*   calls: the watcher calls of the last write, and wrote: its key(s) and *)
(*           the value(s) it was given                                     *)
(*   pending: the <<t, k>> set or deleted since flush was last called      *)
(***************************************************************************)
NeverWritten == [op |-> "never", val |-> PyNone, exp |-> NoTTL]
HistOf(t, k) == FnGetOr(ghost.hist, <<t, k>>, NeverWritten)
LruOf(t) == FnGetOr(ghost.lru, t, [ok |-> TRUE, touched |-> <<>>, got |-> FALSE])

\* k was set, not deleted since, and its TTL has not elapsed
Live(t, k) ==
    /\ HistOf(t, k).op = "set"
    /\ HistOf(t, k).exp = NoTTL \/ now <= HistOf(t, k).exp

Touch(seq, k) == Append(SelectSeq(seq, LAMBDA x : x # k), k)
LruTouch(t, k) == FnPut(ghost.lru, t, [LruOf(t) EXCEPT !.touched = Touch(@, k)])
LruGet(t, k) ==
    FnPut(ghost.lru, t, [LruOf(t) EXCEPT !.touched = Touch(@, k), !.got = TRUE])
LruSpoil(t) == FnPut(ghost.lru, t, [LruOf(t) EXCEPT !.ok = FALSE])

InitGhost ==
    [hist |-> EmptyFn, lru |-> EmptyFn, fresh |-> FALSE, calls |-> <<>>,
     wrote |-> <<>>, pending |-> {}]

\* The objects a specification does not construct
NoFlash == [closed |-> TRUE]
NoLight == [closed |-> TRUE]
NoMaster == [closed |-> TRUE]
NoRWLock == [closed |-> TRUE]
NoThreads == EmptyFn

(***************************************************************************)
(* Actions on a flash instance over Light.                                 *)
(***************************************************************************)
FlashSet(k, v, tname, ttl) ==
    LET r == F_set_value(flash, light, k, v, tname, ttl, now)
        t == TableOr(tname)
    IN  /\ flash' = r.f
        /\ light' = r.db
        /\ ghost' = IF r.err = "MiddlewareError"
                     THEN [ghost EXCEPT !.calls = r.calls, !.wrote = <<>>]
                     ELSE [ghost EXCEPT
                              !.hist = FnPut(ghost.hist, <<t, k>>,
                                    [op |-> "set", val |-> v, exp |-> Expiry(now, ttl)]),
                              !.lru = LruTouch(t, k),
                              !.fresh = FALSE,
                              !.calls = r.calls,
                              !.wrote = << <<k, v>> >>,
                              !.pending = @ \cup {<<t, k>>}]
        /\ UNCHANGED <<master, now, env, rwlock, threads>>

RECURSIVE HistSetAll(_, _, _, _)
HistSetAll(h, t, mapping, e) ==
    IF mapping = <<>> THEN h
    ELSE HistSetAll(FnPut(h, <<t, Head(mapping)[1]>>,
                          [op |-> "set", val |-> Head(mapping)[2], exp |-> e]),
                    t, Tail(mapping), e)

RECURSIVE TouchAll(_, _)
TouchAll(seq, mapping) ==
    IF mapping = <<>> THEN seq
    ELSE TouchAll(Touch(seq, Head(mapping)[1]), Tail(mapping))

FlashSetMultiple(mapping, tname, ttl) ==
    LET r == F_set_multiple(flash, light, mapping, tname, ttl, now)
        t == TableOr(tname)
    IN  /\ flash' = r.f
        /\ light' = r.db
        /\ ghost' = IF r.err = "MiddlewareError"
                     THEN [ghost EXCEPT !.calls = r.calls, !.wrote = <<>>]
                     ELSE [ghost EXCEPT
                              !.hist = HistSetAll(ghost.hist, t, mapping, Expiry(now, ttl)),
                              !.lru = FnPut(ghost.lru, t,
                                   [LruOf(t) EXCEPT !.touched = TouchAll(@, mapping)]),
                              !.fresh = FALSE,
                              !.calls = r.calls,
                              !.wrote = mapping,
                              !.pending = @ \cup {<<t, mapping[i][1]>> :
                                                     i \in DOMAIN mapping}]
        /\ UNCHANGED <<master, now, env, rwlock, threads>>

\* A get of a key that is resident and not expired is a touch of the LRU order.
FlashGet(k, tname) ==
    LET r == F_get_value(flash, light, k, tname, PyNone, now)
        t == TableOr(tname)
        resident == /\ t \in DOMAIN flash.memory
                    /\ ODHas(flash.memory[t], k)
                    /\ ~Expired(ODGet(flash.memory[t], k), now)
    IN  /\ flash' = r.f
        /\ light' = r.db
        /\ ghost' = [ghost EXCEPT !.lru = IF resident THEN LruGet(t, k)
                                          ELSE LruSpoil(t)]
        /\ UNCHANGED <<master, now, env, rwlock, threads>>

FlashDelete(k, tname) ==
    LET r == F_delete(flash, light, k, tname)
        t == TableOr(tname)
    IN  /\ flash' = r.f
        /\ light' = r.db
        /\ ghost' = [ghost EXCEPT
                        !.hist = FnPut(ghost.hist, <<t, k>>,
                                    [op |-> "delete", val |-> PyNone, exp |-> NoTTL]),
                        !.lru = LruSpoil(t),
                        !.fresh = FALSE,
                        !.pending = @ \cup {<<t, k>>}]
        /\ UNCHANGED <<master, now, env, rwlock, threads>>

FlashFlush ==
    LET r == F_flush(flash, light)
    IN  /\ flash' = r.f
        /\ light' = r.db
        /\ ghost' = [ghost EXCEPT !.pending = {}]
        /\ UNCHANGED <<master, now, env, rwlock, threads>>

\* The background thread's pass; it spoils the LRU history of a table it
\* deletes from.
FlashSweep ==
    LET r == F_sweep(flash, light, now)
    IN  /\ flash' = r.f
        /\ light' = r.db
        /\ ghost' = [ghost EXCEPT !.lru =
                        [t \in DOMAIN flash.memory |->
                            IF r.f.memory[t] # flash.memory[t]
                            THEN [LruOf(t) EXCEPT !.ok = FALSE] ELSE LruOf(t)]
                        @@ ghost.lru]
        /\ UNCHANGED <<master, now, env, rwlock, threads>>

\* close(), then a new flash object on the same path
FlashReopen ==
    LET c == F_close(flash, light)
        r == F_init(flash.max_keys, c.db.container)
    IN  /\ flash' = r.f
        /\ light' = r.db
        /\ ghost' = [ghost EXCEPT !.lru = EmptyFn, !.fresh = TRUE, !.pending = {}]
        /\ UNCHANGED <<master, now, env, rwlock, threads>>

\* The clock is read only to set and to test a TTL.
Tick ==
    /\ env.ttls # {0}
    /\ now < MaxTime
    /\ now' = now + 1
    /\ UNCHANGED <<flash, light, master, env, ghost, rwlock, threads>>

(***************************************************************************)
(* Spec: one flash instance over Light.  The callers' arguments come from  *)
(* one of four configurations, each small, each making one kind of case    *)
(* happen: eviction and overwriting (two keys, max_keys = 1), a table the  *)
(* backend has not created (two tables), expiry (a TTL and a clock), and a *)
(* table name that Light._table_regex does not match.                      *)
(***************************************************************************)
Defaults == {PyNone, PyStr("d")}

FlashEnvs ==
    { [name |-> "evict", max_keys |-> 1, keys |-> {"a", "b"}, tables |-> {NoTable},
       values |-> {PyStr("v1"), PyStr("v2")}, ttls |-> {0}, mappings |-> {}],
      [name |-> "tables", max_keys |-> 1, keys |-> {"a"},
       tables |-> {NoTable, users_table},
       values |-> {PyStr("v1")}, ttls |-> {0}, mappings |-> {}],
      [name |-> "ttl", max_keys |-> 1, keys |-> {"a"}, tables |-> {NoTable},
       values |-> {PyStr("v1"), PyStr("v2")}, ttls |-> {0, 1}, mappings |-> {}],
      [name |-> "names", max_keys |-> 1, keys |-> {"a"},
       tables |-> {NoTable, bad_table},
       values |-> {PyStr("v1")}, ttls |-> {0}, mappings |-> {}] }

Init ==
    /\ env \in FlashEnvs
    /\ flash = F_init(env.max_keys, EmptyFn).f
    /\ light = F_init(env.max_keys, EmptyFn).db
    /\ master = NoMaster
    /\ now = 0
    /\ ghost = InitGhost
    /\ rwlock = NoRWLock
    /\ threads = NoThreads

Next ==
    \/ \E k \in env.keys, v \in env.values, t \in env.tables, ttl \in env.ttls :
          FlashSet(k, v, t, ttl)
    \/ \E k \in env.keys, t \in env.tables : FlashGet(k, t)
    \/ \E k \in env.keys, t \in env.tables : FlashDelete(k, t)
    \/ FlashFlush
    \/ FlashSweep
    \/ FlashReopen
    \/ Tick

Spec == Init /\ [][Next]_vars

(***************************************************************************)
(* SpecLRU: the recency map of one table with max_keys = MaxKeys and       *)
(* MaxKeys + 1 keys, under set, set_multiple and get (flush does not read  *)
(* or write the recency map).                                              *)
(***************************************************************************)
\* The dicts {k1: v, k2: v} with k1 # k2, in both orders
Mappings(keys, v) ==
    {<< <<k1, v>>, <<k2, v>> >> : k1 \in keys, k2 \in keys} \ 
    {<< <<k, v>>, <<k, v>> >> : k \in keys}

\* The first n key names
KeyNames == <<"a", "b", "c", "d", "e">>
FirstKeys(n) == {KeyNames[i] : i \in 1..Min(n, Len(KeyNames))}

LruEnv ==
    [name |-> "lru", max_keys |-> MaxKeys, keys |-> FirstKeys(MaxKeys + 1),
     tables |-> {NoTable}, values |-> {PyStr("v1")}, ttls |-> {0},
     mappings |-> Mappings(FirstKeys(MaxKeys + 1), PyStr("v1"))]

InitLRU ==
    /\ env = LruEnv
    /\ flash = F_init(env.max_keys, EmptyFn).f
    /\ light = F_init(env.max_keys, EmptyFn).db
    /\ master = NoMaster
    /\ now = 0
    /\ ghost = InitGhost
    /\ rwlock = NoRWLock
    /\ threads = NoThreads

NextLRU ==
    \/ \E k \in env.keys, v \in env.values, t \in env.tables, ttl \in env.ttls :
          FlashSet(k, v, t, ttl)
    \/ \E m \in env.mappings, t \in env.tables, ttl \in env.ttls :
          FlashSetMultiple(m, t, ttl)
    \/ \E k \in env.keys, t \in env.tables : FlashGet(k, t)

SpecLRU == InitLRU /\ [][NextLRU]_vars

(***************************************************************************)
(* SpecLight: a Light object used directly, on two tables, one of them     *)
(* not the default table (which __init__ creates).  ghost.hist is the last *)
(* set or delete of each key, as above.                                    *)
(***************************************************************************)
HistPut(t, k, op, v) ==
    [ghost EXCEPT !.hist = FnPut(@, <<t, k>>, [op |-> op, val |-> v, exp |-> NoTTL])]

HistPutAll(t, mapping) ==
    [ghost EXCEPT !.hist =
        [x \in {<<t, k>> : k \in DOMAIN mapping} |->
            [op |-> "set", val |-> mapping[x[2]], exp |-> NoTTL]] @@ @]

HistDelAll(t, keyset) ==
    [ghost EXCEPT !.hist =
        [x \in {<<t, k>> : k \in keyset} |->
            [op |-> "delete", val |-> PyNone, exp |-> NoTTL]] @@ @]

LightSet(k, v, tname) ==
    LET r == L_set_value(light, k, v, tname)
    IN  /\ light' = r.st
        /\ ghost' = IF r.err = "ok" THEN HistPut(TableOr(tname), k, "set", v) ELSE ghost
        /\ UNCHANGED <<flash, master, now, env, rwlock, threads>>

\* mapping: a function key -> value
LightSetMultiple(mapping, tname) ==
    LET r == L_set_multiple(light, mapping, tname)
    IN  /\ light' = r.st
        /\ ghost' = IF r.err = "ok" THEN HistPutAll(TableOr(tname), mapping) ELSE ghost
        /\ UNCHANGED <<flash, master, now, env, rwlock, threads>>

LightGet(k, tname) ==
    /\ light' = L_get_value(light, k, tname).st
    /\ UNCHANGED <<flash, master, now, env, ghost, rwlock, threads>>

LightGetMultiple(keys, tname) ==
    /\ light' = L_get_multiple(light, keys, tname).st
    /\ UNCHANGED <<flash, master, now, env, ghost, rwlock, threads>>

LightDelete(k, tname) ==
    /\ light' = L_delete(light, k, tname).st
    /\ ghost' = HistDelAll(TableOr(tname), {k})
    /\ UNCHANGED <<flash, master, now, env, rwlock, threads>>

LightDeleteMultiple(keys, tname) ==
    /\ light' = L_delete_multiple(light, keys, tname).st
    /\ ghost' = HistDelAll(TableOr(tname), SeqToSet(keys))
    /\ UNCHANGED <<flash, master, now, env, rwlock, threads>>

LightFlush(tname, clear_cache) ==
    /\ light' = L_flush(light, tname, clear_cache).st
    /\ UNCHANGED <<flash, master, now, env, ghost, rwlock, threads>>

\* close(), then a new Light object on the same file
LightReopen ==
    /\ light' = L_init(L_close(light).st.container)
    /\ ghost' = [ghost EXCEPT !.fresh = TRUE]
    /\ UNCHANGED <<flash, master, now, env, rwlock, threads>>

LightEnv ==
    [name |-> "light", max_keys |-> 0, keys |-> {"a", "b"},
     tables |-> {NoTable, users_table}, values |-> {PyStr("v1")}, ttls |-> {0},
     mappings |-> {[k \in {"a", "b"} |-> PyStr("v1")]},
     keylists |-> {<<"a", "b">>}]

InitLight ==
    /\ env = LightEnv
    /\ flash = NoFlash
    /\ light = L_init(EmptyFn)
    /\ master = NoMaster
    /\ now = 0
    /\ ghost = InitGhost
    /\ rwlock = NoRWLock
    /\ threads = NoThreads

NextLight ==
    \/ \E k \in env.keys, v \in env.values, t \in env.tables : LightSet(k, v, t)
    \/ \E m \in env.mappings, t \in env.tables : LightSetMultiple(m, t)
    \/ \E k \in env.keys, t \in env.tables : LightGet(k, t)
    \/ \E ks \in env.keylists, t \in env.tables : LightGetMultiple(ks, t)
    \/ \E k \in env.keys, t \in env.tables : LightDelete(k, t)
    \/ \E ks \in env.keylists, t \in env.tables : LightDeleteMultiple(ks, t)
    \/ \E t \in env.tables, c \in BOOLEAN : LightFlush(t, c)
    \/ LightReopen

SpecLight == InitLight /\ [][NextLight]_vars

(***************************************************************************)
(* SpecMaster: a MasterLight object used directly, with MAX_SHARD_SIZE + 1 *)
(* keys of one table, so that a shard can fill.  The history kept:         *)
(*   hist    the last set or delete of each key                            *)
(*   maxsid  the greatest shard id a set has assigned to a key, ever       *)
(*   over    the shards for which a flush of this instance recorded a      *)
(*           size above MAX_SHARD_SIZE                                     *)
(***************************************************************************)
MasterInitGhost == [hist |-> EmptyFn, maxsid |-> NoShard, over |-> {}]

\* The shard ids M1 gives to pairs that M0's index does not hold
Assigned(M0, M1) == {M1.idx[x] : x \in DOMAIN M1.idx \ DOMAIN M0.idx}

RECURSIVE SetMax(_, _)
SetMax(S, m) ==
    IF S = {} THEN m
    ELSE LET x == CHOOSE y \in S : TRUE IN SetMax(S \ {x}, Max(x, m))

MasterSetMultiple(mapping, tname) ==
    LET r == M_set_multiple(master, mapping, tname)
        t == TableOr(tname)
    IN  /\ r.st.active_shard_id <= MaxShardId
        /\ master' = r.st
        /\ ghost' = [ghost EXCEPT
                        !.hist = IF r.err = "ok"
                                 THEN HistSetAll(@, t, mapping, NoTTL) ELSE @,
                        !.maxsid = SetMax(Assigned(master, r.st), @)]
        /\ UNCHANGED <<flash, light, now, env, rwlock, threads>>

MasterSet(k, v, tname) == MasterSetMultiple(<< <<k, v>> >>, tname)

MasterGet(k, tname) ==
    /\ master' = M_get_value(master, k, tname, PyNone).st
    /\ UNCHANGED <<flash, light, now, env, ghost, rwlock, threads>>

MasterCheck(k, tname) ==
    /\ master' = M_check(master, k, tname).st
    /\ UNCHANGED <<flash, light, now, env, ghost, rwlock, threads>>

MasterDeleteMultiple(keys, tname) ==
    /\ master' = M_delete_multiple(master, keys, tname).st
    /\ ghost' = [ghost EXCEPT !.hist = HistDelAll(TableOr(tname), SeqToSet(keys)).hist]
    /\ UNCHANGED <<flash, light, now, env, rwlock, threads>>

MasterDelete(k, tname) == MasterDeleteMultiple(<<k>>, tname)

MasterFlush(clear_cache, checkpointed) ==
    LET r == M_flush(master, clear_cache, checkpointed)
    IN  /\ master' = r.st
        /\ ghost' = [ghost EXCEPT !.over =
                        {sid \in DOMAIN r.st.shards :
                            r.st.shards[sid].last_size > MAX_SHARD_SIZE}]
        /\ UNCHANGED <<flash, light, now, env, rwlock, threads>>

\* close(), then a new MasterLight object on the same base_path
MasterReopen ==
    LET c == M_close(master)
    IN  /\ master' = M_init(c.st.idx, c.st.files)
        /\ ghost' = [ghost EXCEPT !.over = {}]
        /\ UNCHANGED <<flash, light, now, env, rwlock, threads>>

MasterEnv ==
    [name |-> "master", max_keys |-> 0, keys |-> FirstKeys(MAX_SHARD_SIZE + 1),
     tables |-> {NoTable}, values |-> {PyStr("v1")}, ttls |-> {0},
     mappings |-> Mappings({"a", "b"}, PyStr("v1")),
     keylists |-> {<<"a", "b">>}]

InitMaster ==
    /\ env = MasterEnv
    /\ flash = NoFlash
    /\ light = NoLight
    /\ master = M_init(EmptyFn, EmptyFn)
    /\ now = 0
    /\ ghost = MasterInitGhost
    /\ rwlock = NoRWLock
    /\ threads = NoThreads

NextMaster ==
    \/ \E k \in env.keys, v \in env.values, t \in env.tables : MasterSet(k, v, t)
    \/ \E m \in env.mappings, t \in env.tables : MasterSetMultiple(m, t)
    \/ \E k \in env.keys, t \in env.tables : MasterGet(k, t)
    \/ \E k \in env.keys, t \in env.tables : MasterCheck(k, t)
    \/ \E k \in env.keys, t \in env.tables : MasterDelete(k, t)
    \/ \E ks \in env.keylists, t \in env.tables : MasterDeleteMultiple(ks, t)
    \/ \E c \in BOOLEAN, cp \in BOOLEAN : MasterFlush(c, cp)
    \/ MasterReopen

SpecMaster == InitMaster /\ [][NextMaster]_vars

(***************************************************************************)
(* Claims about flash.                                                     *)
(***************************************************************************)
\* What get(k, table=t, default=d) would return now
Get(k, t, d) == F_get_value(flash, light, k, t, d, now)
Check(k, t) == F_check(flash, light, k, t)

\* C1: after set(k, v) on table t every later get(k) on t returns v, before and
\* after any flush and whatever sets and gets of other keys came between
\* (evictions of k included), while k is not deleted, not overwritten and not
\* expired.
C1_GetReturnsWritten ==
    \A t \in env.tables, k \in env.keys, d \in Defaults :
        Live(TableOr(t), k) =>
            /\ Get(k, t, d).err = "ok"
            /\ Get(k, t, d).ret = HistOf(TableOr(t), k).val

\* C2: after delete(k) with no later set of k, check(k) is false and get(k)
\* returns the default, before and after flush, whatever happened to k before.
\* Stated for get's own default, None: for another default the claim fails
\* already on a key that was never written, which is C4.  Only the values
\* returned are compared: a check that raises is not held against the claim.
C2_DeletedIsGone ==
    \A t \in env.tables, k \in env.keys :
        HistOf(TableOr(t), k).op = "delete" =>
            /\ Check(k, t).ret = FALSE
            /\ Get(k, t, PyNone).ret = PyNone

\* C3: a fresh instance opened after flush or close returns from get the last
\* value set when the key's last operation was a set and it is not expired,
\* and the default otherwise.  Stated for get's own default, None (see C2).
C3_ReopenReproduces ==
    ghost.fresh =>
        \A t \in env.tables, k \in env.keys :
            /\ Get(k, t, PyNone).err = "ok"
            /\ Get(k, t, PyNone).ret =
                   IF Live(TableOr(t), k) THEN HistOf(TableOr(t), k).val ELSE PyNone

\* k of table t is in neither the recency map nor the Backend
Absent(k, t) ==
    /\ ~(t \in DOMAIN flash.memory /\ ODHas(flash.memory[t], k))
    /\ ~(t \in DOMAIN light.cache /\ k \in DOMAIN light.cache[t])
    /\ ~(t \in DOMAIN light.container /\ k \in DOMAIN light.container[t])

\* C4: get(k, default=d) of a key that is in neither the recency map nor the
\* Backend returns d, for every d, and never raises.
C4_MissReturnsDefault ==
    \A t \in env.tables, k \in env.keys, d \in Defaults :
        Absent(k, TableOr(t)) =>
            /\ Get(k, t, d).err = "ok"
            /\ Get(k, t, d).ret = d

\* k was last set with a TTL, and the TTL has elapsed
Elapsed(t, k) ==
    /\ HistOf(t, k).op = "set"
    /\ HistOf(t, k).exp # NoTTL
    /\ now > HistOf(t, k).exp

\* C5: a key written with ttl=T is returned by get before T elapses, and at
\* every time after T has elapsed get returns the default, on every read and
\* whatever the Backend holds.  Stated for get's own default, None (see C2).
C5_ExpiredNeverReturned ==
    \A t \in env.tables, k \in env.keys :
        /\ Live(TableOr(t), k) /\ HistOf(TableOr(t), k).exp # NoTTL
              => Get(k, t, PyNone).ret = HistOf(TableOr(t), k).val
        /\ Elapsed(TableOr(t), k) => Get(k, t, PyNone).ret = PyNone


\* The keys of an OrderedDict, oldest first
ODKeySeq(od) == [i \in DOMAIN od |-> od[i][1]]

\* MaxKeys + 1 distinct keys were written to t, with only sets and gets of
\* resident keys so far
LruCase(t) == LruOf(t).ok /\ Len(LruOf(t).touched) = flash.max_keys + 1

\* C6: with max_keys = N, after N + 1 distinct keys were written to one table
\* (by set or set_multiple, with gets of resident keys in between), exactly N
\* keys are resident, and the absent one is the key whose last set-or-get is
\* the oldest.
C6_LruEviction ==
    \A tn \in env.tables :
        LET t == TableOr(tn) IN
        LruCase(t) =>
            /\ t \in DOMAIN flash.memory
            /\ Len(flash.memory[t]) = flash.max_keys
            /\ ~ODHas(flash.memory[t], Head(LruOf(t).touched))
            /\ ODKeySeq(flash.memory[t]) = Tail(LruOf(t).touched)

\* N + 1 keys were written with a get in between, and the key evicted is "b":
\* "a" was written before it and then touched again.
C6_Witness ==
    /\ LruCase(default_table)
    /\ LruOf(default_table).got
    /\ Head(LruOf(default_table).touched) = "b"
    /\ ODKeySeq(flash.memory[default_table])[1] = "a"

(***************************************************************************)
(* Claims about the backends.                                              *)
(***************************************************************************)
\* A flush of this instance recorded a size above MAX_SHARD_SIZE for the
\* active shard
ActiveShardOver == master.active_shard_id \in ghost.over

\* C7: once a flush has recorded a size above the maximum for the active
\* shard, the next set of a (table, key) absent from the index gives it a
\* shard id strictly greater than the shard id of every key assigned before
\* it; and a set of a (table, key) that is in the index leaves its recorded
\* shard id as it is.
C7_RotationStrictlyGreater ==
    \A tn \in env.tables, k \in env.keys, v \in env.values :
        LET x == <<TableOr(tn), k>>
            r == M_set_value(master, k, v, tn)
        IN  /\ (x \notin DOMAIN master.idx /\ ActiveShardOver)
                  => r.st.idx[x] > ghost.maxsid
            /\ x \in DOMAIN master.idx => r.st.idx[x] = master.idx[x]

\* C8: an operation given a table name with a character outside [A-Za-z0-9_]
\* raises a validation error and leaves the in-memory and the persisted state
\* as they were; here set of the Flash tier.
C8_InvalidNameRejected ==
    \A k \in env.keys, v \in env.values, ttl \in env.ttls :
        LET r == F_set_value(flash, light, k, v, bad_table, ttl, now)
        IN  /\ ~table_regex_fullmatch(bad_table)
            /\ r.err = "ValueError"
            /\ r.f = flash
            /\ r.db = light

\* C9: on the Single-File backend, delete of a key that was set before,
\* flushed or not, its table persisted or not, raises nothing, leaves the key
\* in neither the cache, the dirty set nor the backing table, makes check
\* false, and no later flush brings the key back.
C9_DeleteCompletes ==
    \A tn \in env.tables, k \in env.keys :
        LET t == TableOr(tn)
            r == L_delete(light, k, tn)
            f == L_flush(r.st, NoTable, FALSE)
        IN  HistOf(t, k).op # "never" =>
                /\ r.err = "ok"
                /\ k \notin DOMAIN FnGetOr(r.st.cache, t, EmptyFn)
                /\ k \notin FnGetOr(r.st.dirty_keys, t, {})
                /\ k \notin DOMAIN FnGetOr(r.st.container, t, EmptyFn)
                /\ L_check(r.st, k, tn).ret = FALSE
                /\ k \notin DOMAIN FnGetOr(f.st.container, t, EmptyFn)

\* C10: on the Single-File backend, set and set_multiple with a valid table
\* name raise nothing in any reachable state, and afterwards the keys are in
\* the cache and in the dirty set.
C10_SetNeverRaises ==
    \A tn \in env.tables, k \in env.keys, v \in env.values, m \in env.mappings :
        LET t == TableOr(tn)
            r == L_set_value(light, k, v, tn)
            rm == L_set_multiple(light, m, tn)
        IN  validate_table(tn) =>
                /\ r.err = "ok"
                /\ k \in DOMAIN r.st.cache[t]
                /\ k \in FnGetOr(r.st.dirty_keys, t, {})
                /\ rm.err = "ok"
                /\ DOMAIN m \subseteq DOMAIN rm.st.cache[t]
                /\ DOMAIN m \subseteq FnGetOr(rm.st.dirty_keys, t, {})

(***************************************************************************)
(* SpecHooks: writes on a flash instance with middlewares and watchers,    *)
(* registered by use and watch at any moment, at most MaxHooks middlewares *)
(* and MaxHooks watchers of a key.                                         *)
(***************************************************************************)
MaxHooks == 2

FlashUse(func) ==
    /\ Len(flash.middleware) < MaxHooks
    /\ flash' = F_use(flash, light, func).f
    /\ UNCHANGED <<light, master, now, env, ghost, rwlock, threads>>

FlashWatch(k, callback) ==
    /\ Len(FnGetOr(flash.watchers, k, <<>>)) < MaxHooks
    /\ flash' = F_watch(flash, light, k, callback).f
    /\ UNCHANGED <<light, master, now, env, ghost, rwlock, threads>>

HooksEnv ==
    [name |-> "hooks", max_keys |-> 1, keys |-> {"a", "b"}, watched |-> {"a"},
     tables |-> {NoTable}, values |-> {PyStr("v1")}, ttls |-> {0},
     mappings |-> Mappings({"a", "b"}, PyStr("v1")),
     middlewares |-> {[id |-> "m1", fails |-> FALSE], [id |-> "m2", fails |-> FALSE],
                      [id |-> "mx", fails |-> TRUE]},
     callbacks |-> {[id |-> "w1", fails |-> FALSE], [id |-> "wx", fails |-> TRUE]}]

InitHooks ==
    /\ env = HooksEnv
    /\ flash = F_init(env.max_keys, EmptyFn).f
    /\ light = F_init(env.max_keys, EmptyFn).db
    /\ master = NoMaster
    /\ now = 0
    /\ ghost = InitGhost
    /\ rwlock = NoRWLock
    /\ threads = NoThreads

NextHooks ==
    \/ \E func \in env.middlewares : FlashUse(func)
    \/ \E k \in env.watched, callback \in env.callbacks : FlashWatch(k, callback)
    \/ \E k \in env.keys, v \in env.values : FlashSet(k, v, NoTable, 0)
    \/ \E mapping \in env.mappings : FlashSetMultiple(mapping, NoTable, 0)

SpecHooks == InitHooks /\ [][NextHooks]_vars

\* What a write of k by the result r left and whom it called
TookEffect(r, k) ==
    /\ ODHas(r.f.memory[default_table], k)
    /\ k \in DOMAIN ODGet(r.f.cache, default_table)
    /\ k \notin ODGet(r.f.deleted, default_table)
CalledIds(r) == [i \in DOMAIN r.calls |-> r.calls[i][1]]
WatcherIds(k) ==
    [i \in DOMAIN FnGetOr(flash.watchers, k, <<>>) |-> flash.watchers[k][i].id]

\* C11: in set and in set_multiple, when a watcher of the written key fails
\* the write still takes effect, every watcher registered for the key is
\* invoked, and the caller sees no failure (the middlewares not failing).
C11_WatcherFailureContained ==
    \A k \in env.keys, v \in env.values :
        LET r1 == F_set_value(flash, light, k, v, NoTable, 0, now)
            r2 == F_set_multiple(flash, light, << <<k, v>> >>, NoTable, 0, now)
        IN  run_middleware(flash.middleware, k, v).err = "ok" =>
                \A r \in {r1, r2} :
                    /\ r.err = "ok"
                    /\ TookEffect(r, k)
                    /\ CalledIds(r) = WatcherIds(k)

\* mn(k, ... m1(k, v) ...), from the outermost call inwards
RECURSIVE Composed(_, _, _)
Composed(mws, k, v) ==
    IF mws = <<>> THEN v
    ELSE mw_call(mws[Len(mws)], k, Composed(SubSeq(mws, 1, Len(mws) - 1), k, v)).val
AnyFails(mws) == \E i \in DOMAIN mws : mws[i].fails

\* the result r of a write stored and passed on the composed value for the
\* items of mapping, or raised what a middleware raised
ChainApplied(r, mapping) ==
    IF AnyFails(flash.middleware) THEN r.err = "MiddlewareError"
    ELSE \A i \in DOMAIN mapping :
            LET k == mapping[i][1]
                chain == Composed(flash.middleware, k, mapping[i][2])
            IN  /\ ODGet(r.f.cache, default_table)[k].val = chain
                /\ ODHas(r.f.memory[default_table], k)
                      => ODGet(r.f.memory[default_table], k).val = chain
                /\ ODHas(r.f.memory[default_table], mapping[Len(mapping)][1])
                /\ \A j \in DOMAIN r.calls : r.calls[j][2] = chain

\* C16: with middlewares m1..mn registered in that order, a write stores in
\* the recency map and the dirty map, and passes to every watcher it calls,
\* mn(k, ... m1(k, v) ...); a middleware's failure reaches the caller.
C16_MiddlewareChain ==
    /\ \A k \in env.keys, v \in env.values :
          ChainApplied(F_set_value(flash, light, k, v, NoTable, 0, now), << <<k, v>> >>)
    /\ \A mapping \in env.mappings :
          ChainApplied(F_set_multiple(flash, light, mapping, NoTable, 0, now), mapping)

\* a write went through two different middlewares and called a watcher
C16_Witness ==
    /\ Len(flash.middleware) = 2
    /\ flash.middleware[1] # flash.middleware[2]
    /\ ~AnyFails(flash.middleware)
    /\ ghost.wrote # <<>>
    /\ ghost.calls # <<>>
    /\ LET k == ghost.wrote[Len(ghost.wrote)][1]
           chain == Composed(flash.middleware, k, ghost.wrote[Len(ghost.wrote)][2])
       IN  /\ ODGet(flash.memory[default_table], k).val = chain
           /\ ghost.calls[1][2] = chain
           /\ chain # run_middleware_reversed(flash.middleware, k,
                                              ghost.wrote[Len(ghost.wrote)][2]).val

\* The entry that stands for k of table t: the recency map's when k is
\* resident, else the Backend's row
Resident(t, k) == t \in DOMAIN flash.memory /\ ODHas(flash.memory[t], k)
Stored(t, k) == t \in DOMAIN light.container /\ k \in DOMAIN light.container[t]
EntryOf(t, k) ==
    IF Resident(t, k) THEN ODGet(flash.memory[t], k)
    ELSE deserialize(light.container[t][k])
PendingDeletion(t, k) == ODHas(flash.deleted, t) /\ k \in ODGet(flash.deleted, t)

\* C12: get_all(t) holds no key pending deletion and no entry whose expiry is
\* in the past, be it resident or persisted; every other key of the Backend
\* or of the recency map is there, a resident key with its in-memory value.
C12_GetAllView ==
    \A tn \in env.tables :
        LET t == TableOr(tn)
            r == F_get_all(flash, light, tn, now)
        IN  r.err = "ok" =>
              \A k \in env.keys :
                /\ PendingDeletion(t, k) => k \notin DOMAIN r.ret
                /\ (Resident(t, k) \/ Stored(t, k))
                      /\ IsWrapper(EntryOf(t, k)) /\ Expired(EntryOf(t, k), now)
                      => k \notin DOMAIN r.ret
                /\ (Resident(t, k) \/ Stored(t, k))
                      /\ ~PendingDeletion(t, k)
                      /\ ~(IsWrapper(EntryOf(t, k)) /\ Expired(EntryOf(t, k), now))
                      => /\ k \in DOMAIN r.ret
                         /\ Resident(t, k) => r.ret[k] = EntryOf(t, k).val

(***************************************************************************)
(* SpecLastWins: set, delete and flush on a flash instance, on two keys of *)
(* the default table or on one key of a table the Backend has yet to       *)
(* create, with and without a TTL.                                         *)
(***************************************************************************)
LastWinsEnvs ==
    { [name |-> "default", max_keys |-> 1, keys |-> {"a", "b"}, tables |-> {NoTable},
       values |-> {PyStr("v1"), PyStr("v2")}, ttls |-> {0}, mappings |-> {}],
      [name |-> "users", max_keys |-> 1, keys |-> {"a"}, tables |-> {users_table},
       values |-> {PyStr("v1")}, ttls |-> {0, 1}, mappings |-> {}] }

InitLastWins ==
    /\ env \in LastWinsEnvs
    /\ flash = F_init(env.max_keys, EmptyFn).f
    /\ light = F_init(env.max_keys, EmptyFn).db
    /\ master = NoMaster
    /\ now = 0
    /\ ghost = InitGhost
    /\ rwlock = NoRWLock
    /\ threads = NoThreads

NextLastWins ==
    \/ \E k \in env.keys, v \in env.values, t \in env.tables, ttl \in env.ttls :
          FlashSet(k, v, t, ttl)
    \/ \E k \in env.keys, t \in env.tables : FlashDelete(k, t)
    \/ FlashFlush
    \/ Tick

SpecLastWins == InitLastWins /\ [][NextLastWins]_vars

Dirty(t, k) == ODHas(flash.cache, t) /\ k \in DOMAIN ODGet(flash.cache, t)
BackendHolds(L, t, k) ==
    \/ t \in DOMAIN L.cache /\ k \in DOMAIN L.cache[t]
    \/ t \in DOMAIN L.container /\ k \in DOMAIN L.container[t]

\* C13: after sets and deletes of one key the last one wins.  Was it a set,
\* the key is in the dirty map and not pending deletion until flush is
\* called, and flush leaves the set value in the Backend; was it a delete,
\* the key is pending deletion and not in the dirty map until flush is
\* called, and flush leaves the Backend without the key.
C13_LastWriteWins ==
    \A tn \in env.tables, k \in env.keys :
        LET t == TableOr(tn)
            h == HistOf(t, k)
            r == F_flush(flash, light)
        IN  /\ h.op = "set" /\ <<t, k>> \in ghost.pending
                => Dirty(t, k) /\ ~PendingDeletion(t, k)
            /\ h.op = "set"
                => /\ r.err = "ok"
                   /\ t \in DOMAIN r.db.container
                   /\ k \in DOMAIN r.db.container[t]
                   /\ deserialize(r.db.container[t][k]) = Wrapper(h.val, h.exp)
            /\ h.op = "delete" /\ <<t, k>> \in ghost.pending
                => PendingDeletion(t, k) /\ ~Dirty(t, k)
            /\ h.op = "delete" => ~BackendHolds(r.db, t, k)

\* a set of a key was flushed, then the key was deleted and flush was called:
\* the table is in the file, the row is not
C13_Witness ==
    /\ env.name = "users"
    /\ HistOf(users_table, "a").op = "delete"
    /\ ghost.pending = {}
    /\ users_table \in DOMAIN light.container
    /\ ~BackendHolds(light, users_table, "a")

\* C14: after flush(clear_cache=true) the read-through cache holds no key of
\* any table, a table whose dirty set was empty at the call included, and
\* every dirty set is empty.  Stated for the Single-File backend.
C14_FlushClearsCache ==
    LET r == L_flush(light, NoTable, TRUE)
    IN  r.err = "ok" =>
            /\ \A t \in DOMAIN r.st.cache : DOMAIN r.st.cache[t] = {}
            /\ \A t \in DOMAIN r.st.dirty_keys : r.st.dirty_keys[t] = {}

(***************************************************************************)
(* SpecBatch: the batch operations of the three tiers, each tier in its    *)
(* own configuration: a Light object, a MasterLight object on a new path   *)
(* ("master"), a MasterLight object opened on a path whose shard 0 holds   *)
(* SHARD_CHUNK + 1 rows ("store"), and a flash instance over Light.  A     *)
(* long key list has "a" first and "b" last, in the chunk after the first  *)
(* one.                                                                    *)
(***************************************************************************)
LongKeyList(n) ==
    [i \in 1..n |-> IF i = 1 THEN "a" ELSE IF i = n THEN "b" ELSE "k" \o ToString(i)]

SeqToFn(pairs) ==
    [k \in {pairs[i][1] : i \in DOMAIN pairs} |->
        pairs[CHOOSE i \in DOMAIN pairs :
                 pairs[i][1] = k /\ \A j \in DOMAIN pairs : pairs[j][1] = k => j <= i][2]]

BatchEnvs ==
    { [name |-> "light", max_keys |-> 0, keys |-> {"a", "b"}, tables |-> {NoTable},
       values |-> {PyStr("v1")}, ttls |-> {0},
       mappings |-> Mappings({"a", "b"}, PyStr("v2")),
       keylists |-> {<<"a", "b">>, LongKeyList(LIGHT_CHUNK + 1)},
       dellists |-> {<<"a", "b">>}],
      [name |-> "master", max_keys |-> 0, keys |-> {"a", "b"}, tables |-> {NoTable},
       values |-> {PyStr("v1")}, ttls |-> {0},
       mappings |-> Mappings({"a", "b"}, PyStr("v2")),
       keylists |-> {<<"a", "b">>},
       delkeys |-> {"a", "b"}, dellists |-> {<<"a", "b">>}],
      [name |-> "store", max_keys |-> 0, keys |-> {"b"}, tables |-> {NoTable},
       values |-> {PyStr("v2")}, ttls |-> {0},
       mappings |-> {},
       keylists |-> {<<"a", "b">>, LongKeyList(SHARD_CHUNK + 1)},
       delkeys |-> {}, dellists |-> {}],
      [name |-> "flash", max_keys |-> 1, keys |-> {"a", "b"}, tables |-> {NoTable},
       values |-> {PyStr("v1")}, ttls |-> {0},
       mappings |-> Mappings({"a", "b"}, PyStr("v2")),
       keylists |-> {<<"a", "b">>, <<"b", "a">>},
       dellists |-> {<<"a", "b">>}] }

\* The index and the file of shard 0 that an earlier instance left: the keys
\* of the long list, each with one row of the default table
StoredIdx == [x \in {<<default_table, k>> : k \in SeqToSet(LongKeyList(SHARD_CHUNK + 1))} |-> 0]
StoredFiles ==
    [sid \in {0} |->
        Checkpoint([tables |-> [t \in {default_table} |->
                                   [k \in SeqToSet(LongKeyList(SHARD_CHUNK + 1)) |->
                                       serialize(PyStr("v1"))]],
                    size |-> 0])]

InitBatch ==
    /\ env \in BatchEnvs
    /\ flash = IF env.name = "flash" THEN F_init(env.max_keys, EmptyFn).f ELSE NoFlash
    /\ light = IF env.name \in {"light", "flash"} THEN L_init(EmptyFn) ELSE NoLight
    /\ master = CASE env.name = "master" -> M_init(EmptyFn, EmptyFn)
                  [] env.name = "store" -> M_init(StoredIdx, StoredFiles)
                  [] OTHER -> NoMaster
    /\ now = 0
    /\ ghost = IF env.name \in {"master", "store"} THEN MasterInitGhost ELSE InitGhost
    /\ rwlock = NoRWLock
    /\ threads = NoThreads

MasterGetMultiple(keys, tname) ==
    /\ master' = M_get_multiple(master, keys, tname).st
    /\ UNCHANGED <<flash, light, now, env, ghost, rwlock, threads>>

FlashGetMultiple(keys, tname) ==
    LET r == F_get_multiple(flash, light, keys, tname, now)
    IN  /\ flash' = r.f
        /\ light' = r.db
        /\ ghost' = [ghost EXCEPT !.lru = LruSpoil(TableOr(tname))]
        /\ UNCHANGED <<master, now, env, rwlock, threads>>

FlashDeleteMultiple(keys, tname) ==
    LET r == F_delete_multiple(flash, light, keys, tname)
        t == TableOr(tname)
    IN  /\ flash' = r.f
        /\ light' = r.db
        /\ ghost' = [ghost EXCEPT
                        !.hist = HistDelAll(t, SeqToSet(keys)).hist,
                        !.lru = LruSpoil(t),
                        !.fresh = FALSE,
                        !.pending = @ \cup {<<t, k>> : k \in SeqToSet(keys)}]
        /\ UNCHANGED <<master, now, env, rwlock, threads>>

NextBatchLight ==
    /\ env.name = "light"
    /\ \/ \E k \in env.keys, v \in env.values, t \in env.tables : LightSet(k, v, t)
       \/ \E m \in env.mappings, t \in env.tables : LightSetMultiple(SeqToFn(m), t)
       \/ \E k \in env.keys, t \in env.tables : LightGet(k, t)
       \/ \E ks \in env.keylists, t \in env.tables : LightGetMultiple(ks, t)
       \/ \E k \in env.keys, t \in env.tables : LightDelete(k, t)
       \/ \E ks \in env.dellists, t \in env.tables : LightDeleteMultiple(ks, t)
       \/ \E t \in env.tables, c \in BOOLEAN : LightFlush(t, c)
       \/ LightReopen

NextBatchMaster ==
    /\ env.name \in {"master", "store"}
    /\ \/ \E k \in env.keys, v \in env.values, t \in env.tables : MasterSet(k, v, t)
       \/ \E m \in env.mappings, t \in env.tables : MasterSetMultiple(m, t)
       \/ \E k \in env.keys, t \in env.tables : MasterGet(k, t)
       \/ \E ks \in env.keylists, t \in env.tables : MasterGetMultiple(ks, t)
       \/ \E k \in env.delkeys, t \in env.tables : MasterDelete(k, t)
       \/ \E ks \in env.dellists, t \in env.tables : MasterDeleteMultiple(ks, t)
       \/ \E c \in BOOLEAN, cp \in BOOLEAN : MasterFlush(c, cp)

NextBatchFlash ==
    /\ env.name = "flash"
    /\ \/ \E k \in env.keys, v \in env.values, t \in env.tables : FlashSet(k, v, t, 0)
       \/ \E m \in env.mappings, t \in env.tables : FlashSetMultiple(m, t, 0)
       \/ \E k \in env.keys, t \in env.tables : FlashGet(k, t)
       \/ \E ks \in env.keylists, t \in env.tables : FlashGetMultiple(ks, t)
       \/ \E k \in env.keys, t \in env.tables : FlashDelete(k, t)
       \/ \E ks \in env.dellists, t \in env.tables : FlashDeleteMultiple(ks, t)
       \/ FlashFlush

NextBatch == NextBatchLight \/ NextBatchMaster \/ NextBatchFlash

SpecBatch == InitBatch /\ [][NextBatch]_vars

\* The object of the configuration's tier, a flash instance with its backend
TierState ==
    CASE env.name = "light" -> light
      [] env.name \in {"master", "store"} -> master
      [] env.name = "flash" -> [f |-> flash, db |-> light]

OfFlash(r) == Result([f |-> r.f, db |-> r.db], r.ret, r.err)

\* One single-key call op on item (a key, or <<key, value>> for a set)
One(op, S, item, tn) ==
    CASE env.name = "light" /\ op = "get" -> L_get_value(S, item, tn)
      [] env.name = "light" /\ op = "set" -> L_set_value(S, item[1], item[2], tn)
      [] env.name = "light" /\ op = "delete" -> L_delete(S, item, tn)
      [] env.name \in {"master", "store"} /\ op = "get" -> M_get_value(S, item, tn, PyNone)
      [] env.name \in {"master", "store"} /\ op = "set" -> M_set_value(S, item[1], item[2], tn)
      [] env.name \in {"master", "store"} /\ op = "delete" -> M_delete(S, item, tn)
      [] env.name = "flash" /\ op = "get" ->
            OfFlash(F_get_value(S.f, S.db, item, tn, PyNone, now))
      [] env.name = "flash" /\ op = "set" ->
            OfFlash(F_set_value(S.f, S.db, item[1], item[2], tn, 0, now))
      [] env.name = "flash" /\ op = "delete" -> OfFlash(F_delete(S.f, S.db, item, tn))

\* The batch call op on items
Many(op, S, items, tn) ==
    CASE env.name = "light" /\ op = "get" -> L_get_multiple(S, items, tn)
      [] env.name = "light" /\ op = "set" -> L_set_multiple(S, SeqToFn(items), tn)
      [] env.name = "light" /\ op = "delete" -> L_delete_multiple(S, items, tn)
      [] env.name \in {"master", "store"} /\ op = "get" -> M_get_multiple(S, items, tn)
      [] env.name \in {"master", "store"} /\ op = "set" -> M_set_multiple(S, items, tn)
      [] env.name \in {"master", "store"} /\ op = "delete" -> M_delete_multiple(S, items, tn)
      [] env.name = "flash" /\ op = "get" ->
            OfFlash(F_get_multiple(S.f, S.db, items, tn, now))
      [] env.name = "flash" /\ op = "set" ->
            OfFlash(F_set_multiple(S.f, S.db, items, tn, 0, now))
      [] env.name = "flash" /\ op = "delete" ->
            OfFlash(F_delete_multiple(S.f, S.db, items, tn))

\* The single-key calls on items[lo..hi] in turn, up to the first that
\* raises; for gets ret is the map of the keys whose get did not return None.
\* (The list is halved so that a long list does not nest deeply.)
RECURSIVE Each(_, _, _, _, _, _)
Each(op, S, items, lo, hi, tn) ==
    IF lo > hi THEN Result(S, EmptyFn, "ok")
    ELSE IF lo = hi
    THEN LET r == One(op, S, items[lo], tn)
         IN  Result(r.st,
                    IF op = "get" /\ r.err = "ok" /\ r.ret # PyNone
                    THEN FnPut(EmptyFn, items[lo], r.ret) ELSE EmptyFn,
                    r.err)
    ELSE LET mid == (lo + hi) \div 2
             r1 == Each(op, S, items, lo, mid, tn)
             r2 == Each(op, r1.st, items, mid + 1, hi, tn)
         IN  IF r1.err # "ok" THEN r1
             ELSE Result(r2.st, FnUpdate(r1.ret, r2.ret), r2.err)

\* The state of a tier: for flash, what each table has in the recency map,
\* the dirty map and the pending-deletion set (delete_multiple also creates
\* the table's empty dicts, which delete leaves uncreated), and the backend
Content(S) ==
    IF env.name # "flash" THEN S
    ELSE [memory |-> [t \in {x \in DOMAIN S.f.memory : S.f.memory[x] # <<>>}
                         |-> S.f.memory[t]],
          cache |-> [t \in {x \in ODKeys(S.f.cache) : DOMAIN ODGet(S.f.cache, x) # {}}
                        |-> ODGet(S.f.cache, t)],
          deleted |-> [t \in {x \in ODKeys(S.f.deleted) : ODGet(S.f.deleted, x) # {}}
                          |-> ODGet(S.f.deleted, t)],
          db |-> S.db]

SameOutcome(op, b, s) ==
    /\ b.err = s.err
    /\ b.err = "ok" => /\ op = "get" => b.ret = s.ret
                       /\ Content(b.st) = Content(s.st)

SweepEnv ==
    [name |-> "sweep", max_keys |-> 2, keys |-> {"a", "b"}, tables |-> {NoTable},
     values |-> {PyStr("v1")}, ttls |-> {0, 1}, mappings |-> {}]

\* flash.__init__: _ttl_thread_stop = Event(), then _start_ttl_monitor()
InitThreads == [ttl_thread_stop |-> FALSE, sweep |-> "test", main |-> "open"]

InitSweep ==
    /\ env = SweepEnv
    /\ flash = F_init(env.max_keys, EmptyFn).f
    /\ light = F_init(env.max_keys, EmptyFn).db
    /\ master = NoMaster
    /\ now = 0
    /\ ghost = InitGhost
    /\ rwlock = NoRWLock
    /\ threads = InitThreads

\* `while not self._ttl_thread_stop.is_set():`
SweepTest ==
    /\ threads.sweep = "test"
    /\ threads' = [threads EXCEPT !.sweep = IF threads.ttl_thread_stop
                                            THEN "done" ELSE "sleep"]
    /\ UNCHANGED <<flash, light, master, now, env, ghost, rwlock>>

\* time.sleep(30) returns and the pass runs under _lock; the Event is not
\* read again before the pass.
SweepPass ==
    /\ threads.sweep = "sleep"
    /\ flash' = F_sweep(flash, light, now).f
    /\ threads' = [threads EXCEPT !.sweep = "test"]
    /\ UNCHANGED <<light, master, now, env, ghost, rwlock>>

\* close, first statement: self._ttl_thread_stop.set()
CloseSignal ==
    /\ threads.main = "open"
    /\ threads' = [threads EXCEPT !.ttl_thread_stop = TRUE, !.main = "flush"]
    /\ UNCHANGED <<flash, light, master, now, env, ghost, rwlock>>

\* close, second statement: self.flush()
CloseFlush ==
    LET r == F_flush(flash, light)
    IN  /\ threads.main = "flush"
        /\ flash' = r.f
        /\ light' = r.db
        /\ ghost' = [ghost EXCEPT !.pending = {}]
        /\ threads' = [threads EXCEPT !.main = IF r.err = "ok" THEN "dbclose"
                                               ELSE "raised"]
        /\ UNCHANGED <<master, now, env, rwlock>>

\* close, third statement: self.db.close()
CloseBackend ==
    /\ threads.main = "dbclose"
    /\ light' = L_close(light).st
    /\ threads' = [threads EXCEPT !.main = "closed"]
    /\ UNCHANGED <<flash, master, now, env, ghost, rwlock>>

NextSweep ==
    \/ /\ threads.main = "open"
       /\ \E k \in env.keys, v \in env.values, ttl \in env.ttls :
             FlashSet(k, v, NoTable, ttl)
    \/ /\ threads.main = "open"
       /\ \E k \in env.keys : FlashGet(k, NoTable)
    \/ SweepTest
    \/ SweepPass
    \/ CloseSignal
    \/ CloseFlush
    \/ CloseBackend
    \/ Tick

SpecSweep == InitSweep /\ [][NextSweep]_vars

\* What the sweep's deletions change: the recency map, the dirty map and
\* the pending-deletion set.
SweepTouched == <<flash.memory, flash.cache, flash.deleted>>

\* C17: once close has signalled the sweep and made its final flush, the
\* sweep performs no further deletion: from the return of close's flush on,
\* no step changes the recency map, the dirty map or the pending-deletion
\* set.
C17_NoSweepAfterClose ==
    [][threads.main \in {"dbclose", "closed"} => UNCHANGED SweepTouched]_vars


(***************************************************************************)
(* RWLock (MasterLight.py).  rwlock holds _readers and _writing; _lock is  *)
(* the mutex that makes each method body one step, up to a _cond.wait().   *)
(* threads maps each calling thread to its position:                       *)
(*   "idle"     outside the lock's methods, holding nothing                *)
(*   "r_wait"   inside acquire_read, in _cond.wait(), not yet notified     *)
(*   "r_woken"  notified; it re-takes _lock and tests the loop again       *)
(*   "reading"  acquire_read returned, release_read not yet called         *)
(*   "w_wait", "w_woken", "writing": the same for acquire_write            *)
(* Threads pair their calls: a release is called only by a holder.         *)
(* env.readers and env.writers are the threads that call acquire_read and  *)
(* acquire_write.  ghost.passed records that a reader acquired the lock    *)
(* while a writer was blocked in acquire_write.                            *)
(***************************************************************************)
MaxThreads == 4
Threads == 1 .. MaxThreads

\* RWLock.__init__
RW_init == [readers |-> 0, writing |-> FALSE]

\* acquire_read as it would be if readers gave way to a waiting writer.
\* Not the code; C19 is checked to tell the two apart.
read_blocked_writer_first(rw, th) ==
    rw.writing \/ \E t \in DOMAIN th : th[t] \in {"w_wait", "w_woken"}

\* acquire_read: `while self._writing`
read_blocked(rw, th) == rw.writing

\* acquire_write as it would be if it tested _writing alone.
\* Not the code; C18 is checked to tell the two apart.
write_blocked_by_writer_only(rw, th) == rw.writing

\* acquire_write as it would be if writers did not keep each other out.
\* Not the code; C22 is checked to tell the two apart.
write_blocked_by_readers_only(rw, th) == rw.readers > 0

\* acquire_write: `while self._writing or self._readers > 0`
write_blocked(rw, th) == rw.writing \/ rw.readers > 0

\* self._cond.notify_all()
notify_all(th) ==
    [t \in DOMAIN th |-> IF th[t] = "r_wait" THEN "r_woken"
                         ELSE IF th[t] = "w_wait" THEN "w_woken" ELSE th[t]]

WriterBlocked == \E t \in Threads : threads[t] \in {"w_wait", "w_woken"}

\* acquire_read, from the call or from a wake-up: one test of the loop
acquire_read(t) ==
    /\ \/ threads[t] = "idle" /\ t \in env.readers
       \/ threads[t] = "r_woken"
    /\ IF read_blocked(rwlock, threads)
       THEN /\ threads' = [threads EXCEPT ![t] = "r_wait"]
            /\ UNCHANGED <<rwlock, ghost>>
       ELSE /\ rwlock' = [rwlock EXCEPT !.readers = @ + 1]
            /\ threads' = [threads EXCEPT ![t] = "reading"]
            /\ ghost' = [ghost EXCEPT !.passed = @ \/ WriterBlocked]
    /\ UNCHANGED <<flash, light, master, now, env>>

release_read(t) ==
    /\ threads[t] = "reading"
    /\ rwlock' = [rwlock EXCEPT !.readers = @ - 1]
    /\ threads' = IF rwlock.readers - 1 = 0
                  THEN notify_all([threads EXCEPT ![t] = "idle"])
                  ELSE [threads EXCEPT ![t] = "idle"]
    /\ UNCHANGED <<flash, light, master, now, env, ghost>>

\* acquire_write, from the call or from a wake-up: one test of the loop
acquire_write(t) ==
    /\ \/ threads[t] = "idle" /\ t \in env.writers
       \/ threads[t] = "w_woken"
    /\ IF write_blocked(rwlock, threads)
       THEN /\ threads' = [threads EXCEPT ![t] = "w_wait"]
            /\ UNCHANGED <<rwlock, ghost>>
       ELSE /\ rwlock' = [rwlock EXCEPT !.writing = TRUE]
            /\ threads' = [threads EXCEPT ![t] = "writing"]
            /\ ghost' = [ghost EXCEPT !.passed = FALSE]
    /\ UNCHANGED <<flash, light, master, now, env>>

release_write(t) ==
    /\ threads[t] = "writing"
    /\ rwlock' = [rwlock EXCEPT !.writing = FALSE]
    /\ threads' = notify_all([threads EXCEPT ![t] = "idle"])
    /\ UNCHANGED <<flash, light, master, now, env, ghost>>

\* SpecRW: every thread calls both pairs of methods, in any interleaving.
InitRW ==
    /\ env = [name |-> "rwlock", readers |-> Threads, writers |-> Threads]
    /\ flash = NoFlash
    /\ light = NoLight
    /\ master = NoMaster
    /\ now = 0
    /\ ghost = [passed |-> FALSE]
    /\ rwlock = RW_init
    /\ threads = [t \in Threads |-> "idle"]

NextRW ==
    \/ \E t \in Threads : acquire_read(t)
    \/ \E t \in Threads : release_read(t)
    \/ \E t \in Threads : acquire_write(t)
    \/ \E t \in Threads : release_write(t)

SpecRW == InitRW /\ [][NextRW]_vars

ReadHolders == {t \in Threads : threads[t] = "reading"}
WriteHolders == {t \in Threads : threads[t] = "writing"}

\* C18: RWLock mutual exclusion.  In every reachable state at most one
\* thread holds the write lock and no thread holds the read lock while a
\* thread holds the write lock; and while no writer holds it, a thread
\* that calls acquire_read gets the lock however many readers hold it.
C18_MutualExclusion ==
    /\ Cardinality(WriteHolders) <= 1
    /\ WriteHolders # {} => ReadHolders = {}
    /\ rwlock.readers = Cardinality(ReadHolders)
    /\ rwlock.writing = (WriteHolders # {})
    /\ WriteHolders = {} => ~read_blocked(rwlock, threads)

\* Two readers hold the lock together while a writer is kept out.
C18_Witness ==
    /\ Cardinality(ReadHolders) >= 2
    /\ \E t \in Threads : threads[t] = "w_wait"


(***************************************************************************)
(* SpecStarve: the executions of the RWLock in which the readers relay the *)
(* lock.  Threads 1 and 2 call acquire_write; the other threads call       *)
(* acquire_read, and a reader calls release_read only while another reader *)
(* holds the lock too (Relay).  Every step is a step of NextRW.  Its       *)
(* fairness says that a thread that can go on under this schedule does,    *)
(* and that a reader who can hand over again and again does hand over.     *)
(* C19 then checks that each of these executions is fair in the lock's own *)
(* terms (RWFair: no thread is left able to run and never run).            *)
(***************************************************************************)
Writers == {1, 2}
Readers == Threads \ Writers

InitStarve ==
    /\ env = [name |-> "starve", readers |-> Readers, writers |-> Writers]
    /\ flash = NoFlash
    /\ light = NoLight
    /\ master = NoMaster
    /\ now = 0
    /\ ghost = [passed |-> FALSE]
    /\ rwlock = RW_init
    /\ threads = [t \in Threads |-> "idle"]

Relay == rwlock.readers > 0 => rwlock'.readers > 0

Step(t) ==
    \/ acquire_read(t)
    \/ release_read(t)
    \/ acquire_write(t)
    \/ release_write(t)

NextStarve ==
    \/ \E t \in Threads : acquire_read(t) /\ Relay
    \/ \E t \in Threads : release_read(t) /\ Relay
    \/ \E t \in Threads : acquire_write(t) /\ Relay
    \/ \E t \in Threads : release_write(t) /\ Relay

SpecStarve ==
    /\ InitStarve
    /\ [][NextStarve]_vars
    /\ \A t \in Threads : WF_vars(Step(t) /\ Relay)
    /\ \A t \in Threads : SF_vars(release_read(t) /\ Relay)

\* Fair scheduling of the threads that use the lock: a thread that stays
\* able to take its next step takes it.
RWFair == \A t \in Threads : WF_vars(Step(t))

\* C19: RWLock gives writers no priority.  The relaying executions are fair,
\* and in them, once a writer is blocked in acquire_write while a reader
\* holds the lock, every reader acquires and releases the lock again and
\* again, the reader count never reaches zero again and no writer ever
\* acquires: the waiting writer does not keep newly arriving readers out.
C19_WriterStarves ==
    /\ RWFair
    /\ [](WriterBlocked /\ rwlock.readers > 0
             => /\ [](WriteHolders = {} /\ rwlock.readers > 0)
                /\ \A r \in Readers : /\ []<>(threads[r] = "reading")
                                      /\ []<>(threads[r] = "idle"))

\* A reader has acquired the lock while a writer was blocked in
\* acquire_write, and the writer is still waiting.
C19_Witness ==
    /\ ghost.passed
    /\ \E w \in Writers : threads[w] = "w_wait"
    /\ rwlock.readers > 0


(***************************************************************************)
(* SpecRace: flash.get_value in one thread beside the operations of        *)
(* another thread and the sweep.  get_value takes _lock only around the    *)
(* insertion of a lazily loaded item; what it does outside the lock is     *)
(* split at each place another thread can come in between.  threads.get    *)
(* is the reading thread: its position, the key of the call, the local     *)
(* variable item, and what the last call returned or raised.               *)
(*   "idle"   not in get_value                                             *)
(*   "fetch"  item was None: before self.db.get_value                      *)
(*   "insert" the backend answered: before `with self._lock`               *)
(*   "ttl"    before the TTL check                                         *)
(*   "touch"  before self.memory[t].move_to_end(key)                       *)
(* set_value, delete and the sweep's pass hold _lock throughout and are    *)
(* one step each.                                                          *)
(***************************************************************************)
RaceEnv ==
    [name |-> "race", max_keys |-> 1, keys |-> {"a", "b"}, tables |-> {NoTable},
     values |-> {PyStr("v1")}, ttls |-> {0, 1}, mappings |-> {}]

NoItem == [ty |-> "none"]

InitRace ==
    /\ env = RaceEnv
    /\ flash = F_init(env.max_keys, EmptyFn).f
    /\ light = F_init(env.max_keys, EmptyFn).db
    /\ master = NoMaster
    /\ now = 0
    /\ ghost = InitGhost
    /\ rwlock = NoRWLock
    /\ threads = [get |-> [pc |-> "idle", key |-> "a", item |-> NoItem,
                           ret |-> PyNone, err |-> "ok"]]

GetReturn(ret, err) ==
    [threads EXCEPT !.get.pc = "idle", !.get.item = NoItem,
                    !.get.ret = ret, !.get.err = err]

\* get_value(key): `if t not in self.memory: ...; item = self.memory[t].get(key)`
GetRead(key) ==
    LET t == default_table
        m1 == MemTable(flash.memory, t)
        hit == ODHas(m1[t], key)
    IN  /\ threads.get.pc = "idle"
        /\ flash' = [flash EXCEPT !.memory = m1]
        /\ threads' = [threads EXCEPT
                          !.get.key = key,
                          !.get.item = IF hit THEN ODGet(m1[t], key) ELSE NoItem,
                          !.get.pc = IF hit THEN "ttl" ELSE "fetch",
                          !.get.ret = PyNone, !.get.err = "ok"]
        /\ UNCHANGED <<light, master, now, env, ghost, rwlock>>

\* `raw = self.db.get_value(key, table=t)` and the wrapping of raw;
\* `except (KeyError, Exception): return default`
GetFetch ==
    LET r == L_get_value(light, threads.get.key, default_table)
        raw == r.ret
    IN  /\ threads.get.pc = "fetch"
        /\ light' = r.st
        /\ threads' = IF r.err # "ok" THEN GetReturn(PyNone, "ok")
                      ELSE [threads EXCEPT
                               !.get.item = IF IsWrapper(raw) THEN raw
                                            ELSE Wrapper(raw, NoTTL),
                               !.get.pc = "insert"]
        /\ UNCHANGED <<flash, master, now, env, ghost, rwlock>>

\* `with self._lock: self.memory[t][key] = item; self._manage_memory(t)`
GetInsert ==
    LET t == default_table
    IN  /\ threads.get.pc = "insert"
        /\ flash' = [flash EXCEPT !.memory =
                        FnPut(@, t, manage_memory(flash.max_keys,
                                 ODPut(@[t], threads.get.key, threads.get.item)))]
        /\ threads' = [threads EXCEPT !.get.pc = "ttl"]
        /\ UNCHANGED <<light, master, now, env, ghost, rwlock>>

\* `if time.time() > item["ttl"]: self.delete(key, table=t); return default`
GetTTL ==
    /\ threads.get.pc = "ttl"
    /\ IF Expired(threads.get.item, now)
       THEN /\ flash' = F_delete(flash, light, threads.get.key, default_table).f
            /\ threads' = GetReturn(PyNone, "ok")
       ELSE /\ threads' = [threads EXCEPT !.get.pc = "touch"]
            /\ UNCHANGED flash
    /\ UNCHANGED <<light, master, now, env, ghost, rwlock>>

\* `self.memory[t].move_to_end(key); return item["val"]`: move_to_end
\* raises KeyError for a key that is not in the OrderedDict.
GetTouch ==
    LET t == default_table
        key == threads.get.key
    IN  /\ threads.get.pc = "touch"
        /\ IF ODHas(flash.memory[t], key)
           THEN /\ flash' = [flash EXCEPT !.memory =
                                FnPut(@, t, ODMoveToEnd(@[t], key))]
                /\ threads' = GetReturn(threads.get.item.val, "ok")
           ELSE /\ threads' = GetReturn(PyNone, "KeyError")
                /\ UNCHANGED flash
        /\ UNCHANGED <<light, master, now, env, ghost, rwlock>>

NextRace ==
    \/ \E k \in env.keys : GetRead(k)
    \/ GetFetch
    \/ GetInsert
    \/ GetTTL
    \/ GetTouch
    \/ \E k \in env.keys, v \in env.values, ttl \in env.ttls :
          FlashSet(k, v, NoTable, ttl)
    \/ \E k \in env.keys : FlashDelete(k, NoTable)
    \/ FlashSweep
    \/ Tick

SpecRace == InitRace /\ [][NextRace]_vars

\* C20: every public flash operation holds the lock for its full duration,
\* so a get(k) that runs while another thread deletes k, evicts k or
\* sweeps never fails, and returns a value set for k or the default.
C20_GetNeverFails ==
    /\ threads.get.err = "ok"
    /\ \/ threads.get.ret = PyNone
       \/ /\ threads.get.ret \in env.values
          /\ HistOf(default_table, threads.get.key) # NeverWritten


(***************************************************************************)
(* SpecLocks: the locks of a flash over a MasterLight backend, and the     *)
(* order in which each operation takes them.  Data is left out; an         *)
(* operation is the sequence of its lock events, in program order:         *)
(*   "F+" "F-"  flash._lock (an RLock): `with self._lock`                  *)
(*   "R+" "R-"  MasterLight._rwlock: acquire_read / release_read           *)
(*   "W+" "W-"  MasterLight._rwlock: acquire_write / release_write         *)
(*   "S+" "S-"  Shard._lock (an RLock): `with shard._lock`                 *)
(* flash.lock and master.shard_lock are [owner, count], owner 0 when free. *)
(* rwlock is RW_init with cond, each thread's position at the RWLock as in *)
(* SpecRW.  threads maps a thread to the operation it runs and the index   *)
(* of its next event; a thread that finished one operation starts another. *)
(***************************************************************************)
MaxLockThreads == 3
LockThreads == 1 .. MaxLockThreads

LockOps ==
    {"flash.flush", "flash.get_value", "flash.set_value", "sweep",
     "flash.list_keys", "MasterLight.set_multiple", "MasterLight.get_value"}

\* get_value as it would be if it inserted the loaded item while still
\* inside the Backend's read lock.  Not the code; C21 is checked to tell the
\* two apart.
lock_events_insert_in_backend(op) ==
    CASE op = "flash.flush" -> <<"F+", "W+", "S+", "S-", "W-", "W+", "S+", "S-", "W-", "F-">>
      [] op = "flash.get_value" -> <<"R+", "S+", "F+", "F-", "S-", "R-">>
      [] op = "flash.set_value" -> <<"F+", "F-">>
      [] op = "sweep" -> <<"F+", "F+", "F-", "F-">>
      [] op = "flash.list_keys" -> <<"R+", "R-", "F+", "F-">>
      [] op = "MasterLight.set_multiple" -> <<"W+", "S+", "S-", "W-">>
      [] op = "MasterLight.get_value" -> <<"R+", "S+", "S-", "R-">>

\* The lock events of each operation:
\*   flash.flush: under _lock, db.set_multiple or db.delete_multiple (write
\*     lock, then the shard's lock), then db.flush (the same)
\*   flash.get_value: db.get_value (read lock, then the shard's lock), and
\*     after it returned, _lock for the insertion
\*   flash.set_value: _lock
\*   sweep: _lock, and self.delete under it, which takes _lock again
\*   flash.list_keys: db.list_keys (read lock), then _lock
\*   MasterLight.set_multiple, MasterLight.get_value: called directly
lock_events(op) ==
    CASE op = "flash.flush" -> <<"F+", "W+", "S+", "S-", "W-", "W+", "S+", "S-", "W-", "F-">>
      [] op = "flash.get_value" -> <<"R+", "S+", "S-", "R-", "F+", "F-">>
      [] op = "flash.set_value" -> <<"F+", "F-">>
      [] op = "sweep" -> <<"F+", "F+", "F-", "F-">>
      [] op = "flash.list_keys" -> <<"R+", "R-", "F+", "F-">>
      [] op = "MasterLight.set_multiple" -> <<"W+", "S+", "S-", "W-">>
      [] op = "MasterLight.get_value" -> <<"R+", "S+", "S-", "R-">>

FreeLock == [owner |-> 0, count |-> 0]

\* RLock.acquire by thread t succeeds when the lock is free or t owns it
rlock_free(lock, t) == lock.owner \in {0, t}
rlock_acquire(lock, t) == [owner |-> t, count |-> lock.count + 1]
rlock_release(lock) ==
    IF lock.count = 1 THEN FreeLock ELSE [lock EXCEPT !.count = @ - 1]

InitLocks ==
    /\ env = [name |-> "locks", ops |-> LockOps]
    /\ flash = [lock |-> FreeLock]
    /\ light = NoLight
    /\ master = [shard_lock |-> FreeLock]
    /\ now = 0
    /\ ghost = InitGhost
    /\ rwlock = [readers |-> 0, writing |-> FALSE,
                 cond |-> [t \in LockThreads |-> "idle"]]
    /\ threads = [t \in LockThreads |-> [op |-> "idle", pc |-> 0]]

NextEvent(t) ==
    IF threads[t].op = "idle" THEN "none"
    ELSE lock_events(threads[t].op)[threads[t].pc]

\* The thread's position after its current event
Advance(t) ==
    IF threads[t].pc = Len(lock_events(threads[t].op))
    THEN [threads EXCEPT ![t] = [op |-> "idle", pc |-> 0]]
    ELSE [threads EXCEPT ![t].pc = @ + 1]

\* A thread calls an operation.
LockCall(t, op) ==
    /\ threads[t].op = "idle"
    /\ threads' = [threads EXCEPT ![t] = [op |-> op, pc |-> 1]]
    /\ UNCHANGED <<flash, light, master, now, env, ghost, rwlock>>

FlashLockAcquire(t) ==
    /\ NextEvent(t) = "F+"
    /\ rlock_free(flash.lock, t)
    /\ flash' = [flash EXCEPT !.lock = rlock_acquire(@, t)]
    /\ threads' = Advance(t)
    /\ UNCHANGED <<light, master, now, env, ghost, rwlock>>

FlashLockRelease(t) ==
    /\ NextEvent(t) = "F-"
    /\ flash' = [flash EXCEPT !.lock = rlock_release(@)]
    /\ threads' = Advance(t)
    /\ UNCHANGED <<light, master, now, env, ghost, rwlock>>

ShardLockAcquire(t) ==
    /\ NextEvent(t) = "S+"
    /\ rlock_free(master.shard_lock, t)
    /\ master' = [master EXCEPT !.shard_lock = rlock_acquire(@, t)]
    /\ threads' = Advance(t)
    /\ UNCHANGED <<flash, light, now, env, ghost, rwlock>>

ShardLockRelease(t) ==
    /\ NextEvent(t) = "S-"
    /\ master' = [master EXCEPT !.shard_lock = rlock_release(@)]
    /\ threads' = Advance(t)
    /\ UNCHANGED <<flash, light, now, env, ghost, rwlock>>

\* acquire_read, from the call or from a wake-up: one test of the loop
ReadLockAcquire(t) ==
    /\ NextEvent(t) = "R+"
    /\ rwlock.cond[t] \in {"idle", "r_woken"}
    /\ IF read_blocked(rwlock, rwlock.cond)
       THEN /\ rwlock' = [rwlock EXCEPT !.cond[t] = "r_wait"]
            /\ UNCHANGED threads
       ELSE /\ rwlock' = [rwlock EXCEPT !.readers = @ + 1, !.cond[t] = "reading"]
            /\ threads' = Advance(t)
    /\ UNCHANGED <<flash, light, master, now, env, ghost>>

ReadLockRelease(t) ==
    /\ NextEvent(t) = "R-"
    /\ rwlock' = [rwlock EXCEPT
                     !.readers = @ - 1,
                     !.cond = IF rwlock.readers - 1 = 0
                              THEN notify_all([@ EXCEPT ![t] = "idle"])
                              ELSE [@ EXCEPT ![t] = "idle"]]
    /\ threads' = Advance(t)
    /\ UNCHANGED <<flash, light, master, now, env, ghost>>

\* acquire_write, from the call or from a wake-up: one test of the loop
WriteLockAcquire(t) ==
    /\ NextEvent(t) = "W+"
    /\ rwlock.cond[t] \in {"idle", "w_woken"}
    /\ IF write_blocked(rwlock, rwlock.cond)
       THEN /\ rwlock' = [rwlock EXCEPT !.cond[t] = "w_wait"]
            /\ UNCHANGED threads
       ELSE /\ rwlock' = [rwlock EXCEPT !.writing = TRUE, !.cond[t] = "writing"]
            /\ threads' = Advance(t)
    /\ UNCHANGED <<flash, light, master, now, env, ghost>>

WriteLockRelease(t) ==
    /\ NextEvent(t) = "W-"
    /\ rwlock' = [rwlock EXCEPT !.writing = FALSE,
                                !.cond = notify_all([@ EXCEPT ![t] = "idle"])]
    /\ threads' = Advance(t)
    /\ UNCHANGED <<flash, light, master, now, env, ghost>>

NextLocks ==
    \/ \E t \in LockThreads, op \in env.ops : LockCall(t, op)
    \/ \E t \in LockThreads : FlashLockAcquire(t)
    \/ \E t \in LockThreads : FlashLockRelease(t)
    \/ \E t \in LockThreads : ShardLockAcquire(t)
    \/ \E t \in LockThreads : ShardLockRelease(t)
    \/ \E t \in LockThreads : ReadLockAcquire(t)
    \/ \E t \in LockThreads : ReadLockRelease(t)
    \/ \E t \in LockThreads : WriteLockAcquire(t)
    \/ \E t \in LockThreads : WriteLockRelease(t)

SpecLocks == InitLocks /\ [][NextLocks]_vars

\* The locks thread t holds: those it acquired and has not released in the
\* events before its next one.
Count(events, e) == Cardinality({i \in DOMAIN events : events[i] = e})
Passed(t) ==
    IF threads[t].op = "idle" THEN <<>>
    ELSE SubSeq(lock_events(threads[t].op), 1, threads[t].pc - 1)
Holds(t, l) == Count(Passed(t), l \o "+") > Count(Passed(t), l \o "-")
HoldsBackend(t) == Holds(t, "R") \/ Holds(t, "W") \/ Holds(t, "S")

\* Thread t can take a step: it is not waiting for a lock another thread
\* holds, nor in _cond.wait().
CanStep(t) ==
    CASE NextEvent(t) = "F+" -> rlock_free(flash.lock, t)
      [] NextEvent(t) = "S+" -> rlock_free(master.shard_lock, t)
      [] NextEvent(t) = "R+" -> rwlock.cond[t] # "r_wait"
      [] NextEvent(t) = "W+" -> rwlock.cond[t] # "w_wait"
      [] OTHER -> TRUE

\* C21: lock ordering is acyclic.  No thread asks for flash's lock while it
\* holds a Backend lock (the RWLock or a shard's lock), none asks for the
\* RWLock while it holds a shard's lock; and in every reachable state some
\* thread can take a step (no deadlock).
C21_LockOrder ==
    /\ \A t \in LockThreads :
          /\ NextEvent(t) = "F+" => ~HoldsBackend(t)
          /\ NextEvent(t) \in {"R+", "W+"} => ~Holds(t, "S")
    /\ \E t \in LockThreads : CanStep(t)

\* One thread holds flash's lock and waits in acquire_write, a second holds
\* the read lock and the shard's lock, a third waits for flash's lock.
C21_Witness ==
    \E a, b, c \in LockThreads :
       /\ Holds(a, "F") /\ rwlock.cond[a] = "w_wait"
       /\ Holds(b, "R") /\ Holds(b, "S")
       /\ NextEvent(c) = "F+" /\ ~rlock_free(flash.lock, c)


(***************************************************************************)
(* SpecWriters: several threads call set_multiple, delete and flush on one *)
(* MasterLight.  Each call takes the write lock, runs its body and         *)
(* releases the lock in its `finally`.  The body of set_multiple is two    *)
(* steps, so that what the exclusive lock keeps apart can be told: the     *)
(* loop that looks keys up and assigns shard ids ("assign", leaving the    *)
(* locals groups and new_idx), then the index insert, its commit and the   *)
(* pass to the shards ("commit").  threads[t] is the call's position, its  *)
(* argument and these locals; rwlock is as in SpecLocks.  The index is a   *)
(* function of <<table, key>>: idx has PRIMARY KEY(table_name, key) and    *)
(* rows are written with INSERT OR REPLACE.                                *)
(***************************************************************************)
MaxWriters == 2
WriterThreads == 1 .. MaxWriters

WritersEnv ==
    [name |-> "writers",
     mappings |-> {<< <<"a", PyStr("v1")>> >>,
                   << <<"b", PyStr("v1")>>, <<"c", PyStr("v1")>> >>},
     delkeys |-> {"a"}]

IdleCall == [op |-> "idle", pc |-> "idle", arg |-> <<>>, groups |-> <<>>,
             new_idx |-> <<>>]

InitWriters ==
    /\ env = WritersEnv
    /\ flash = NoFlash
    /\ light = NoLight
    /\ master = M_init(EmptyFn, EmptyFn)
    /\ now = 0
    /\ ghost = InitGhost
    /\ rwlock = [readers |-> 0, writing |-> FALSE,
                 cond |-> [t \in WriterThreads |-> "idle"]]
    /\ threads = [t \in WriterThreads |-> IdleCall]

\* A thread calls set_multiple(arg), delete(arg) or flush().
WriterCall(t, op, arg) ==
    /\ threads[t].pc = "idle"
    /\ threads' = [threads EXCEPT ![t] = [IdleCall EXCEPT !.op = op, !.arg = arg,
                                                         !.pc = "acquire"]]
    /\ UNCHANGED <<flash, light, master, now, env, ghost, rwlock>>

\* self._rwlock.acquire_write(): one test of its loop
WriterAcquire(t) ==
    /\ threads[t].pc = "acquire"
    /\ rwlock.cond[t] \in {"idle", "w_woken"}
    /\ IF write_blocked(rwlock, rwlock.cond)
       THEN /\ rwlock' = [rwlock EXCEPT !.cond[t] = "w_wait"]
            /\ UNCHANGED threads
       ELSE /\ rwlock' = [rwlock EXCEPT !.writing = TRUE, !.cond[t] = "writing"]
            /\ threads' = [threads EXCEPT ![t].pc =
                              IF threads[t].op = "set_multiple" THEN "assign"
                              ELSE "body"]
    /\ UNCHANGED <<flash, light, master, now, env, ghost>>

\* set_multiple: `for k, v in mapping.items()`
SetAssign(t) ==
    LET a == M_assign(master, default_table, threads[t].arg, <<>>, <<>>)
    IN  /\ threads[t].pc = "assign"
        /\ a.st.active_shard_id <= MaxShardId
        /\ master' = a.st
        /\ threads' = [threads EXCEPT ![t].pc = "commit", ![t].groups = a.groups,
                                      ![t].new_idx = a.new_idx]
        /\ UNCHANGED <<flash, light, now, env, ghost, rwlock>>

\* set_multiple: the executemany on idx, the commit, and `for sid, dmap in
\* groups.items()`; an exception leaves through the `finally`
SetCommit(t) ==
    LET r == M_pass([master EXCEPT !.idx = M_index_insert(@, threads[t].new_idx)],
                    default_table, threads[t].groups, 1)
    IN  /\ threads[t].pc = "commit"
        /\ master' = r.st
        /\ threads' = [threads EXCEPT ![t].pc = "release"]
        /\ UNCHANGED <<flash, light, now, env, ghost, rwlock>>

\* The body of delete (delete_multiple([key])) or of flush
WriterBody(t, checkpointed) ==
    LET r == IF threads[t].op = "delete"
             THEN M_delete(master, threads[t].arg, NoTable)
             ELSE M_flush(master, FALSE, checkpointed)
    IN  /\ threads[t].pc = "body"
        /\ master' = r.st
        /\ threads' = [threads EXCEPT ![t].pc = "release"]
        /\ UNCHANGED <<flash, light, now, env, ghost, rwlock>>

\* `finally: self._rwlock.release_write()`
WriterRelease(t) ==
    /\ threads[t].pc = "release"
    /\ rwlock' = [rwlock EXCEPT !.writing = FALSE,
                                !.cond = notify_all([@ EXCEPT ![t] = "idle"])]
    /\ threads' = [threads EXCEPT ![t] = IdleCall]
    /\ UNCHANGED <<flash, light, master, now, env, ghost>>

NextWriters ==
    \/ \E t \in WriterThreads, m \in env.mappings : WriterCall(t, "set_multiple", m)
    \/ \E t \in WriterThreads, k \in env.delkeys : WriterCall(t, "delete", k)
    \/ \E t \in WriterThreads : WriterCall(t, "flush", <<>>)
    \/ \E t \in WriterThreads : WriterAcquire(t)
    \/ \E t \in WriterThreads : SetAssign(t)
    \/ \E t \in WriterThreads : SetCommit(t)
    \/ \E t \in WriterThreads, cp \in BOOLEAN : WriterBody(t, cp)
    \/ \E t \in WriterThreads : WriterRelease(t)

SpecWriters == InitWriters /\ [][NextWriters]_vars

\* The shards whose cache holds key k of table t
CachedIn(M, t, k) ==
    {sid \in DOMAIN M.shards :
        t \in DOMAIN M.shards[sid].cache /\ k \in DOMAIN M.shards[sid].cache[t]}

\* C22: a (table, key) is owned by at most one shard.  Whenever no call is
\* inside the write lock, a key is cached in at most one shard, the shard
\* of its index row, so two concurrent set_multiple calls that write the
\* same new key give it one shard id and cache its value in that shard.
C22_OneShardPerKey ==
    ~rwlock.writing =>
        \A k \in {"a", "b", "c"} :
           /\ Cardinality(CachedIn(master, default_table, k)) <= 1
           /\ \A sid \in CachedIn(master, default_table, k) :
                 /\ <<default_table, k>> \in DOMAIN master.idx
                 /\ master.idx[<<default_table, k>>] = sid

\* Two calls of set_multiple for the new key a at once: one has assigned
\* its shard id and not yet written the index row, the other waits in
\* acquire_write.
C22_Witness ==
    \E t, u \in WriterThreads :
       /\ threads[t].op = "set_multiple" /\ threads[t].pc = "commit"
       /\ Len(threads[t].new_idx) = 1 /\ threads[t].new_idx[1][2] = "a"
       /\ threads[u].op = "set_multiple" /\ threads[u].arg = threads[t].arg
       /\ rwlock.cond[u] = "w_wait"

(***************************************************************************)
(* clear_table and drop_table of MasterLight, and the memoized lookup.     *)
(* The statements on a shard carry the table name unquoted, so sqlite      *)
(* raises OperationalError for a name that is not an identifier.           *)
(***************************************************************************)
sql_identifier(table) == table_regex_fullmatch(table)

\* The loop `for shard in self.shards.values()` of clear_table (drop = FALSE)
\* and of drop_table (drop = TRUE), over the open shards sids
RECURSIVE M_drop_in_shards(_, _, _, _)
M_drop_in_shards(M, table, sids, drop) ==
    IF sids = <<>> THEN Result(M, TRUE, "ok")
    ELSE IF ~sql_identifier(table) THEN Result(M, PyNone, "OperationalError")
    ELSE
    LET sid == Head(sids)
        sh == M.shards[sid]
        file == M.files[sid]
        rest == [x \in DOMAIN file.tables \ {table} |-> file.tables[x]]
        sh1 == IF drop
               THEN [sh EXCEPT
                       !.cache = [x \in DOMAIN sh.cache \ {table} |-> sh.cache[x]],
                       !.dirty = [x \in DOMAIN sh.dirty \ {table} |-> sh.dirty[x]]]
               ELSE [sh EXCEPT
                       !.cache = IF table \in DOMAIN sh.cache
                                 THEN FnPut(sh.cache, table, EmptyFn) ELSE sh.cache,
                       !.dirty = IF table \in DOMAIN sh.dirty
                                 THEN FnPut(sh.dirty, table, {}) ELSE sh.dirty]
    IN  M_drop_in_shards(
            [M EXCEPT !.shards = FnPut(@, sid, sh1),
                      !.files = FnPut(@, sid,
                          [file EXCEPT !.tables =
                              IF drop THEN rest ELSE FnPut(rest, table, EmptyFn)])],
            table, Tail(sids), drop)

\* DELETE FROM idx WHERE table_name = ?, committed
M_index_delete_table(M, table) ==
    [M EXCEPT !.idx = [x \in {y \in DOMAIN M.idx : y[1] # table} |-> M.idx[x]]]

\* clear_table(table): the index rows go first, the memo is cleared last
M_clear_table(M, table) ==
    LET r == M_drop_in_shards(M_index_delete_table(M, table), table,
                              SetToSeq(DOMAIN M.shards), FALSE)
    IN  IF r.err # "ok" THEN r ELSE Result(cache_clear(r.st), TRUE, "ok")

M_drop_table(M, table) ==
    LET r == M_drop_in_shards(M_index_delete_table(M, table), table,
                              SetToSeq(DOMAIN M.shards), TRUE)
    IN  IF r.err # "ok" THEN r ELSE Result(cache_clear(r.st), TRUE, "ok")

MasterClearTable(table) ==
    /\ master' = M_clear_table(master, table).st
    /\ ghost' = [ghost EXCEPT !.hist = HistDelAll(table, env.keys).hist]
    /\ UNCHANGED <<flash, light, now, env, rwlock, threads>>

MasterDropTable(table) ==
    /\ master' = M_drop_table(master, table).st
    /\ ghost' = [ghost EXCEPT !.hist = HistDelAll(table, env.keys).hist]
    /\ UNCHANGED <<flash, light, now, env, rwlock, threads>>

\* The callers of the index: every table name a caller may pass reaches the
\* statements, MasterLight checks none
IndexEnv ==
    [name |-> "index", max_keys |-> 0, keys |-> {"a", "b"},
     tables |-> {NoTable, bad_table}, values |-> {PyStr("v1")}, ttls |-> {0},
     mappings |-> Mappings({"a", "b"}, PyStr("v1")) \cup {<< <<"a", PyStr("v1")>> >>},
     keylists |-> {<<"a">>, <<"a", "b">>}]

InitIndex ==
    /\ env = IndexEnv
    /\ flash = NoFlash
    /\ light = NoLight
    /\ master = M_init(EmptyFn, EmptyFn)
    /\ now = 0
    /\ ghost = MasterInitGhost
    /\ rwlock = NoRWLock
    /\ threads = NoThreads

NextIndex ==
    \/ \E m \in env.mappings, t \in env.tables : MasterSetMultiple(m, t)
    \/ \E k \in env.keys, t \in env.tables : MasterCheck(k, t)
    \/ \E ks \in env.keylists, t \in env.tables : MasterDeleteMultiple(ks, t)
    \/ \E t \in env.tables : MasterClearTable(TableOr(t))
    \/ \E t \in env.tables : MasterDropTable(TableOr(t))

SpecIndex == InitIndex /\ [][NextIndex]_vars

\* What the idx table holds for (table, key): its shard id, or None
IndexRow(M, x) == FnGetOr(M.idx, x, NoShard)

\* C23: between calls (no thread holds the write lock) every memo entry of
\* the shard lookup, a memoized None too, equals what the idx table records
\* for that (table, key), after any sequence of set_multiple,
\* delete_multiple, clear_table and drop_table, failing ones included
C23_MemoNeverStale ==
    \A x \in DOMAIN master.memo : master.memo[x] = IndexRow(master, x)

\* C24: over set, delete, flush, close and reopen on one base_path the active
\* shard id never decreases, and no new (table, key) is given a shard id
\* below one that an earlier set has assigned (a shard left behind by a
\* rotation gets no new key).
C24_ActiveShardMonotonic ==
    [][/\ master'.active_shard_id >= master.active_shard_id
       /\ \A s \in Assigned(master, master') : s >= ghost.maxsid]_vars

\* Shard sid of M keeps every dirty key of every table in that table's cache
DirtyInCache(M, sid) ==
    \A t \in DOMAIN M.shards[sid].dirty :
        M.shards[sid].dirty[t] # {} =>
            /\ t \in DOMAIN M.shards[sid].cache
            /\ M.shards[sid].dirty[t] \subseteq DOMAIN M.shards[sid].cache[t]

\* Key k of table t is in the cache or the dirty set of some shard of M
HeldByShard(M, t, k) ==
    \E sid \in DOMAIN M.shards :
        \/ t \in DOMAIN M.shards[sid].cache /\ k \in DOMAIN M.shards[sid].cache[t]
        \/ t \in DOMAIN M.shards[sid].dirty /\ k \in M.shards[sid].dirty[t]

\* C25: in every shard, after any sequence of set, delete, clear_table and
\* drop_table, each key of a table's dirty set is in that table's cache, and
\* after a delete that returns normally the deleted key is in neither
C25_DirtyInCacheDeletedInNeither ==
    /\ \A sid \in DOMAIN master.shards : DirtyInCache(master, sid)
    /\ \A k \in env.keys, tn \in env.tables :
          LET r == M_delete(master, k, tn)
          IN  r.err = "ok" => ~HeldByShard(r.st, TableOr(tn), k)

\* The rows the file of shard sid of M holds for table t
ShardRows(M, sid, t) ==
    IF sid \in DOMAIN M.files /\ t \in DOMAIN M.files[sid].tables
    THEN M.files[sid].tables[t] ELSE EmptyFn

SameShardRows(M0, M1) ==
    \A sid \in DOMAIN M0.files \cup DOMAIN M1.files, tn \in env.tables :
        ShardRows(M0, sid, TableOr(tn)) = ShardRows(M1, sid, TableOr(tn))

\* C26: writes are deferred.  On a Table Store, set and set_multiple (and the
\* reads) leave the persisted rows of every table as they are; on Flash, set,
\* set_multiple, delete and delete_multiple leave the whole Backend as it is,
\* so they call no mutating Backend operation, and a read leaves its rows.
C26_WritesDeferred ==
    /\ env.name = "light" =>
          /\ \A k \in env.keys, v \in env.values, tn \in env.tables :
                /\ L_set_value(light, k, v, tn).st.container = light.container
                /\ L_get_value(light, k, tn).st.container = light.container
          /\ \A m \in env.mappings, tn \in env.tables :
                L_set_multiple(light, SeqToFn(m), tn).st.container = light.container
    /\ env.name \in {"master", "store"} =>
          /\ \A k \in env.keys, v \in env.values, tn \in env.tables :
                /\ SameShardRows(master, M_set_value(master, k, v, tn).st)
                /\ SameShardRows(master, M_get_value(master, k, tn, PyNone).st)
          /\ \A m \in env.mappings, tn \in env.tables :
                SameShardRows(master, M_set_multiple(master, m, tn).st)
    /\ env.name = "flash" =>
          /\ \A k \in env.keys, v \in env.values, tn \in env.tables, ttl \in env.ttls :
                /\ F_set_value(flash, light, k, v, tn, ttl, now).db = light
                /\ F_delete(flash, light, k, tn).db = light
                /\ F_get_value(flash, light, k, tn, PyNone, now).db.container
                      = light.container
          /\ \A m \in env.mappings, tn \in env.tables, ttl \in env.ttls :
                F_set_multiple(flash, light, m, tn, ttl, now).db = light
          /\ \A ks \in env.dellists, tn \in env.tables :
                F_delete_multiple(flash, light, ks, tn).db = light

\* A set is held back on each tier: a dirty key of the Single-File backend
\* without a row, and a dirty entry of Flash that the Backend has not seen
C26_Witness ==
    \/ /\ env.name = "light"
       /\ \E t \in DOMAIN light.dirty_keys : \E k \in light.dirty_keys[t] :
             k \notin DOMAIN FnGetOr(light.container, t, EmptyFn)
       /\ \E t \in DOMAIN light.container : light.container[t] # EmptyFn
    \/ /\ env.name = "flash"
       /\ Dirty(default_table, "a")
       /\ ~BackendHolds(light, default_table, "a")
       /\ BackendHolds(light, default_table, "b")

\* What flash F holds back for key k of table t
DirtyIn(F, t, k) == ODHas(F.cache, t) /\ k \in DOMAIN ODGet(F.cache, t)
PendingIn(F, t, k) == ODHas(F.deleted, t) /\ k \in ODGet(F.deleted, t)

\* The row the backend L would persist for key k of table t: its cached value
\* serialized, else the row of the file, else None
LightView(L, t, k) ==
    IF t \in DOMAIN L.cache /\ k \in DOMAIN L.cache[t] THEN serialize(L.cache[t][k])
    ELSE IF t \in DOMAIN L.container /\ k \in DOMAIN L.container[t]
    THEN L.container[t][k] ELSE PyNone

\* C27: a flush of Flash that returns normally leaves every dirty map and
\* every pending-deletion set empty; the Backend then has no row and no cache
\* entry for a key that was pending deletion, has the wrapped entry of every
\* key that was dirty, cached and persisted by its own flush, which ran last
\* (no dirty key is left in the Backend), and holds for every other key what
\* it held.  When a Backend call fails, an entry that is no longer dirty or
\* pending in Flash is one the Backend has received.
C27_FlushForwards ==
    LET r == F_flush(flash, light)
        pairs == {<<TableOr(tn), k>> : tn \in env.tables, k \in env.keys}
    IN  /\ r.err = "ok" =>
              /\ \A i \in DOMAIN r.f.cache : r.f.cache[i][2] = EmptyFn
              /\ \A i \in DOMAIN r.f.deleted : r.f.deleted[i][2] = {}
              /\ \A t \in DOMAIN r.db.dirty_keys : r.db.dirty_keys[t] = {}
              /\ \A x \in pairs :
                    /\ PendingIn(flash, x[1], x[2]) /\ ~DirtyIn(flash, x[1], x[2])
                          => ~BackendHolds(r.db, x[1], x[2])
                    /\ DirtyIn(flash, x[1], x[2]) =>
                          /\ r.db.cache[x[1]][x[2]] = ODGet(flash.cache, x[1])[x[2]]
                          /\ r.db.container[x[1]][x[2]]
                                = serialize(ODGet(flash.cache, x[1])[x[2]])
                    /\ ~PendingIn(flash, x[1], x[2]) /\ ~DirtyIn(flash, x[1], x[2])
                          => LightView(r.db, x[1], x[2]) = LightView(light, x[1], x[2])
        /\ r.err # "ok" =>
              \A x \in pairs :
                 /\ DirtyIn(flash, x[1], x[2]) /\ ~DirtyIn(r.f, x[1], x[2])
                       => /\ x[1] \in DOMAIN r.db.cache
                          /\ x[2] \in DOMAIN r.db.cache[x[1]]
                          /\ r.db.cache[x[1]][x[2]] = ODGet(flash.cache, x[1])[x[2]]
                 /\ PendingIn(flash, x[1], x[2]) /\ ~PendingIn(r.f, x[1], x[2])
                       => ~BackendHolds(r.db, x[1], x[2])

\* A flush that has a deletion and a write to forward and returns normally,
\* the deletion being of a key the Backend holds
C27_Witness ==
    /\ F_flush(flash, light).err = "ok"
    /\ \E k \in env.keys : PendingIn(flash, default_table, k)
                           /\ BackendHolds(light, default_table, k)
    /\ \E k \in env.keys : DirtyIn(flash, default_table, k)

(***************************************************************************)
(* SpecRecency: the recency map of one table with max_keys = MaxKeys and   *)
(* MaxKeys + 1 keys under every operation that adds to it, the preload of  *)
(* a new instance included.  Light.list_keys returns list(set), so the     *)
(* order of the listed keys is any order.                                  *)
(***************************************************************************)
\* The sequences of the n = |S| elements of S, each once
Arrangements(S) ==
    {s \in [1..Cardinality(S) -> S] : \A i, j \in DOMAIN s : s[i] = s[j] => i = j}

\* One round of _preload_data as it would be without the slice [:max_keys].
\* Not the code; C28 is checked to tell the two apart.
F_preload_table_unsliced(F, L, t, listed) ==
    LET r == L_get_multiple(L, listed, t)
    IN  IF listed = <<>> \/ r.err # "ok" THEN FResult(F, r.st, PyNone, r.err)
        ELSE FResult([F EXCEPT !.memory =
                         FnPut(@, t, [i \in DOMAIN listed |->
                                         <<listed[i], r.ret[listed[i]]>>])],
                     r.st, PyNone, "ok")

\* One round of the loop of _preload_data, for table t; listed is what
\* db.list_keys(table=t) returned
F_preload_table(F, L, t, listed) ==
    LET keys == SubSeq(listed, 1, Min(F.max_keys, Len(listed)))
        r == L_get_multiple(L, keys, t)
    IN  IF keys = <<>> \/ r.err # "ok" THEN FResult(F, r.st, PyNone, r.err)
        ELSE FResult([F EXCEPT !.memory =
                         FnPut(@, t, [i \in DOMAIN keys |-> <<keys[i], r.ret[keys[i]]>>])],
                     r.st, PyNone, "ok")

\* _preload_data over the tables ts; listing[t] is the list of t's keys
RECURSIVE F_preload_data(_, _, _, _)
F_preload_data(F, L, ts, listing) ==
    IF ts = <<>> THEN FResult(F, L, TRUE, "ok")
    ELSE LET r == F_preload_table(F, L, Head(ts), listing[Head(ts)])
         IN  IF r.err # "ok" THEN r
             ELSE F_preload_data(r.f, r.db, Tail(ts), listing)

\* flash.__init__(backend="light", preload=True) on the file `container`
F_init_preload(maxkeys, container, listing) ==
    LET i == F_init(maxkeys, container)
        lt == L_list_tables(i.db)
    IN  F_preload_data(i.f, lt.st, SetToSeq(lt.ret), listing)

\* A call that returned r; ghost.fresh: the instance is new and preloaded
Recency(r, fresh) ==
    /\ flash' = r.f
    /\ light' = r.db
    /\ ghost' = [fresh |-> fresh]
    /\ UNCHANGED <<master, now, env, rwlock, threads>>

\* close(), then a new flash(preload=True) on the same file
FlashReopenPreload ==
    LET c == F_close(flash, light)
        tables == DOMAIN c.db.container
    IN  \E listing \in [tables -> UNION {Arrangements(DOMAIN c.db.container[t]) :
                                            t \in tables}] :
           /\ \A t \in tables : listing[t] \in Arrangements(DOMAIN c.db.container[t])
           /\ Recency(F_init_preload(flash.max_keys, c.db.container, listing), TRUE)

RecencyEnv ==
    [name |-> "recency", max_keys |-> MaxKeys, keys |-> FirstKeys(MaxKeys + 1),
     tables |-> {NoTable}, values |-> {PyStr("v1")}, ttls |-> {0},
     mappings |-> Mappings(FirstKeys(MaxKeys + 1), PyStr("v1"))
                     \cup {[i \in 1..(MaxKeys + 1) |-> <<KeyNames[i], PyStr("v1")>>]},
     keylists |-> {[i \in 1..(MaxKeys + 1) |-> KeyNames[i]]}]

InitRecency ==
    /\ env = RecencyEnv
    /\ flash = F_init(env.max_keys, EmptyFn).f
    /\ light = F_init(env.max_keys, EmptyFn).db
    /\ master = NoMaster
    /\ now = 0
    /\ ghost = [fresh |-> FALSE]
    /\ rwlock = NoRWLock
    /\ threads = NoThreads

NextRecency ==
    \/ \E k \in env.keys, v \in env.values, t \in env.tables, ttl \in env.ttls :
          Recency(F_set_value(flash, light, k, v, t, ttl, now), FALSE)
    \/ \E m \in env.mappings, t \in env.tables, ttl \in env.ttls :
          Recency(F_set_multiple(flash, light, m, t, ttl, now), FALSE)
    \/ \E k \in env.keys, t \in env.tables :
          Recency(F_get_value(flash, light, k, t, PyNone, now), FALSE)
    \/ \E ks \in env.keylists, t \in env.tables :
          Recency(F_get_multiple(flash, light, ks, t, now), FALSE)
    \/ \E k \in env.keys, t \in env.tables :
          Recency(F_delete(flash, light, k, t), FALSE)
    \/ Recency(F_flush(flash, light), FALSE)
    \/ FlashReopenPreload

SpecRecency == InitRecency /\ [][NextRecency]_vars

\* The place of key k in the recency map od, 1 being the least recently used
Pos(od, k) == CHOOSE i \in DOMAIN od : od[i][1] = k

\* From flash to F1, an operation that touched the keys `touched` of table t
\* left at most max_keys entries and evicted from the least-recently-used
\* end: every entry it evicted was older than every one it kept
LruEnd(F1, t, touched) ==
    LET before == FnGetOr(flash.memory, t, <<>>)
        after == FnGetOr(F1.memory, t, <<>>)
        evicted == ODKeys(before) \ (ODKeys(after) \cup touched)
        kept == (ODKeys(before) \cap ODKeys(after)) \ touched
    IN  /\ Len(after) <= F1.max_keys
        /\ \A e \in evicted, s \in kept : Pos(before, e) < Pos(before, s)

FlushWritesFirst(F, L) ==
    LET r1 == F_flush_cache(F, L, 1)
        r2 == F_flush_deleted(r1.f, r1.db, 1)
        r3 == L_flush(r2.db, NoTable, FALSE)
    IN  IF r1.err # "ok" THEN r1
        ELSE IF r2.err # "ok" THEN r2
        ELSE FResult(r2.f, r3.st, TRUE, r3.err)

F_list_keys(F, L, tname) ==
    LET t == TableOr(tname)
        r == L_list_keys(L, t)
        ram_keys == IF t \in DOMAIN F.memory THEN ODKeys(F.memory[t]) ELSE {}
        deleted_keys == IF ODHas(F.deleted, t) THEN ODGet(F.deleted, t) ELSE {}
    IN  IF r.err # "ok" THEN FResult(F, r.st, PyNone, r.err)
        ELSE FResult(F, r.st, (r.ret \cup ram_keys) \ deleted_keys, "ok")

\* The keys of table t in the recency map of F
ResidentKeys(F, t) == IF t \in DOMAIN F.memory THEN ODKeys(F.memory[t]) ELSE {}

\* C30: a get of a key that no set has written (and no delete has named)
\* leaves the key set of the recency map as it was, so it evicts no resident
\* entry; check of that key is false before and after it, and list_keys
\* returns what it returned.
C30_ReadsCreateNoKeys ==
    \A k \in env.keys, tn \in env.tables :
        LET t == TableOr(tn)
            r == F_get_value(flash, light, k, tn, PyNone, now)
        IN  <<t, k>> \notin DOMAIN ghost.hist =>
               /\ ResidentKeys(r.f, t) = ResidentKeys(flash, t)
               /\ ~F_check(flash, light, k, tn).ret
               /\ ~F_check(r.f, r.db, k, tn).ret
               /\ F_list_keys(r.f, r.db, tn).ret = F_list_keys(flash, light, tn).ret

\* C31: get_all agrees with get.  For every key k of the map get_all(t)
\* returns, the mapped value is what get(k) on t returns now, the unwrapped
\* value, be k resident in the recency map or held by the Backend only.
C31_GetAllAgreesWithGet ==
    \A tn \in env.tables :
        LET r == F_get_all(flash, light, tn, now)
        IN  r.err = "ok" =>
               \A k \in DOMAIN r.ret :
                  r.ret[k] = F_get_value(flash, light, k, tn, PyNone, now).ret

(***************************************************************************)
(* SpecClear: a MasterLight object under set, get, delete, flush, reopen,  *)
(* clear_table and drop_table, on table names sqlite accepts.              *)
(***************************************************************************)
\* list_keys: SELECT key FROM idx WHERE table_name = ?
M_list_keys(M, tname) ==
    Result(M, {x[2] : x \in {y \in DOMAIN M.idx : y[1] = TableOr(tname)}}, "ok")

\* The loop of get_all over the shard files sids: every file is opened and
\* its rows of t are read; a file without the table is skipped
RECURSIVE M_get_all_files(_, _, _, _)
M_get_all_files(M, t, sids, combined_data) ==
    IF sids = <<>> THEN Result(M, combined_data, "ok")
    ELSE
    LET sid == Head(sids)
        M1 == get_shard(M, sid)
        tables == M1.files[sid].tables
        rows == IF t \in DOMAIN tables
                THEN [k \in DOMAIN tables[t] |-> deserialize(tables[t][k])]
                ELSE EmptyFn
    IN  M_get_all_files(M1, t, Tail(sids), FnUpdate(combined_data, rows))

\* get_all: base_path.glob("shard_*.db") is every shard file there is
M_get_all(M, tname) ==
    M_get_all_files(M, TableOr(tname), SetToSeq(DOMAIN M.files), EmptyFn)

ClearEnv == [MasterEnv EXCEPT !.name = "clear"]

InitClear ==
    /\ env = ClearEnv
    /\ flash = NoFlash
    /\ light = NoLight
    /\ master = M_init(EmptyFn, EmptyFn)
    /\ now = 0
    /\ ghost = MasterInitGhost
    /\ rwlock = NoRWLock
    /\ threads = NoThreads

\* A call that returned r; the history variables are not kept here
ClearCall(r) ==
    /\ r.st.active_shard_id <= MaxShardId
    /\ master' = r.st
    /\ UNCHANGED <<flash, light, now, env, ghost, rwlock, threads>>

\* close(), then a new MasterLight object on the same base_path
ClearReopen ==
    LET c == M_close(master)
    IN  ClearCall(Result(M_init(c.st.idx, c.st.files), PyNone, "ok"))

NextClear ==
    \/ \E k \in env.keys, v \in env.values, t \in env.tables :
          ClearCall(M_set_value(master, k, v, t))
    \/ \E k \in env.keys, t \in env.tables :
          ClearCall(M_get_value(master, k, t, PyNone))
    \/ \E k \in env.keys, t \in env.tables : ClearCall(M_delete(master, k, t))
    \/ \E c \in BOOLEAN, cp \in BOOLEAN : ClearCall(M_flush(master, c, cp))
    \/ ClearReopen
    \/ \E t \in env.tables : ClearCall(M_clear_table(master, TableOr(t)))
    \/ \E t \in env.tables : ClearCall(M_drop_table(master, TableOr(t)))

SpecClear == InitClear /\ [][NextClear]_vars

\* In M, table tn is empty to every reader: get_all, list_keys and get
EmptyToReaders(M, tn) ==
    /\ M_get_all(M, tn).ret = EmptyFn
    /\ M_list_keys(M, tn).ret = {}
    /\ \A k \in env.keys : M_get_value(M, k, tn, PyNone).ret = PyNone

\* C32: after a clear_table(t) or a drop_table(t) that returns normally,
\* get_all(t) is empty, list_keys(t) is empty and get returns no key of t,
\* whichever shards are open at the call, none included (a new instance).
C32_ClearedTableIsEmpty ==
    \A tn \in env.tables :
        LET c == M_clear_table(master, TableOr(tn))
            d == M_drop_table(master, TableOr(tn))
        IN  /\ c.err = "ok" => EmptyToReaders(c.st, tn)
            /\ d.err = "ok" => EmptyToReaders(d.st, tn)

\* C33: the index and the shards agree in every state that set, get,
\* delete, flush, reopen, clear_table and drop_table reach, failing calls
\* included: check(k) on t is true exactly when get(k) on t returns a stored
\* value, the shard of every index row holding the key in its cache or in
\* its persisted rows.
C33_IndexAgreesWithShards ==
    \A k \in env.keys, tn \in env.tables :
        M_check(master, k, tn).ret <=> M_get_value(master, k, tn, PyNone).ret # PyNone

=============================================================================
